---- MODULE Spec2Model ----
(***************************************************************************)
(* ClauseFlow: reference-based clause extraction.                          *)
(*                                                                         *)
(* The module models, from the Python sources under src/backend:           *)
(*   - the line indexer (services/preprocessor.py),                        *)
(*   - segmentation repair (services/segmenter.py),                        *)
(*   - clause extraction calls and chunking (services/clause_extractor.py),*)
(*   - the two-pass document pipeline (main.py, process_document).         *)
(*                                                                         *)
(* Text is a sequence of one-character strings; a line range is a pair of  *)
(* 1-indexed line numbers.  Each component has its own specification       *)
(* (SpecLines, SpecSeg, SpecExtract, SpecPipe) over the shared variables.  *)
(***************************************************************************)
EXTENDS Integers, Sequences, FiniteSets, TLC

VARIABLES
    li_pc,          \* line indexer: "idle" | "input" | "built" | "extracted" |
                    \*   "repeated"
    li_text,        \* raw text handed to add_line_numbers
    li_doc,         \* the NumberedDocument built from li_text (NoDoc before)
    li_call,        \* last extract_lines call: [start, end, res] (NoCall before)
    sg_pc,          \* validate_segmentation: "idle" | "input" | "first" |
                    \*   "pairs" | "last" | "coverage" | "done"
    sg_total,       \* its total_lines argument
    sg_in,          \* its sections argument (the caller's list)
    sg_out,         \* its local list `sections` (the sorted copy), returned at "done"
    sg_warnings,    \* its local list `warnings`, returned at "done"
    sg_i,           \* index i of the loop over adjacent pairs (1-based)
    ex_pc,          \* clause extraction: "idle" | "document" | "section" |
                    \*   "loop" | "done" | "failed" (the exception propagates)
    ex_total,       \* doc.total_lines
    ex_range,       \* <<section_start_line, section_end_line>> (section mode)
    ex_chunk_start, \* chunk_start of the chunk loop (0-based)
    ex_all,         \* all_clauses of the chunk loop
    ex_calls,       \* oracle calls issued: the document lines each was given
                    \*   and the chunk_clauses _extract_chunk returned
    ex_truth,       \* [known, clauses]: the document's true clause structure
                    \*   when the oracle answers by it
    ex_result,      \* the clauses of the returned ExtractionResult
    pd,             \* document id -> the process_document task for it:
                    \*   [pc, text, sections, idx, results, pending_clauses,
                    \*    log]; results are the clause lists returned for
                    \*   the sections, log the calls made and lines printed
    db_documents,   \* document id -> committed [status, error_message,
                    \*   original_text, total_lines]
    db_sections,    \* committed Section rows, in insertion order
    db_line_items,  \* committed LineItem rows, in insertion order
    db_clauses,     \* committed Clause rows, in insertion order
    vr_pc,          \* validate_references: "idle" | "call" | "done"
    vr_refs,        \* argument refs
    vr_total,       \* argument total_lines
    vr_valid,       \* returned valid_refs
    vr_warnings,    \* returned warnings
    nm_pc,          \* _normalize_identifier: "idle" | "call" | "done" | "again"
    nm_in,          \* the identifier
    nm_variant,     \* an identifier that differs from it in one character of
                    \*   case, space, hyphen or underscore
    nm_out,         \* <<key of nm_in, key of nm_variant>>
    nm_again,       \* the key of the key of nm_in
    rm_pc,          \* run_reference_matching: "idle" | "detect" | "match" |
                    \*   "returned"
    rm_customer,    \* document.customer_id, 0 for None
    rm_status,      \* document.status
    rm_library,     \* the reference_documents table, in row order
    rm_clauses,     \* the document's Clause rows, ordered by start_line
    rm_reply,       \* the oracle's reply to the detection call
    rm_detected,    \* the list detect_references_in_clauses returned
    rm_raised,      \* TRUE when detect_references_in_clauses raised
    rm_links,       \* committed ClauseReferenceLink rows
    rf_pc,          \* process_reference_document and its background task:
                    \*   "idle" | "start" | "children" | "single" | "except" |
                    \*   "returned" | "raised" | "done"
    rf_text,        \* the text argument
    rf_docs,        \* the reference_documents rows, by id; row 1 is the
                    \*   uploaded document
    rf_specs,       \* split_result.specs
    rf_idx,         \* number of specs of the book handled so far
    rf_reqs         \* the reference_requirements rows

liVars == <<li_pc, li_text, li_doc, li_call>>

sgVars == <<sg_pc, sg_total, sg_in, sg_out, sg_warnings, sg_i>>

exVars == <<ex_pc, ex_total, ex_range, ex_chunk_start, ex_all, ex_calls, ex_truth,
           ex_result>>

pdVars == <<pd, db_documents, db_sections, db_line_items, db_clauses>>

vrVars == <<vr_pc, vr_refs, vr_total, vr_valid, vr_warnings>>

nmVars == <<nm_pc, nm_in, nm_variant, nm_out, nm_again>>

rmVars == <<rm_pc, rm_customer, rm_status, rm_library, rm_clauses, rm_reply,
           rm_detected, rm_raised, rm_links>>

rfVars == <<rf_pc, rf_text, rf_docs, rf_specs, rf_idx, rf_reqs>>

vars == <<liVars, sgVars, exVars, pdVars, vrVars, nmVars, rmVars, rfVars>>

None == "None"     \* Python None in an optional string field

(***************************************************************************)
(* Characters and Python string primitives.                                *)
(***************************************************************************)
NL == "\n"

Chars == {"a", " ", NL}

Digits == <<"0", "1", "2", "3", "4", "5", "6", "7", "8", "9">>

\* str.split('\n'): scan left to right, cutting at every newline.
RECURSIVE SplitFrom(_, _, _, _)
SplitFrom(text, i, cur, acc) ==
    IF i > Len(text) THEN Append(acc, cur)
    ELSE IF text[i] = NL THEN SplitFrom(text, i + 1, <<>>, Append(acc, cur))
    ELSE SplitFrom(text, i + 1, Append(cur, text[i]), acc)

split(text) == SplitFrom(text, 1, <<>>, <<>>)

\* '\n'.join(lines)
RECURSIVE join(_)
join(lines) ==
    IF Len(lines) = 0 THEN <<>>
    ELSE IF Len(lines) = 1 THEN lines[1]
    ELSE lines[1] \o <<NL>> \o join(Tail(lines))

\* str(n) for n >= 0
RECURSIVE str(_)
str(n) ==
    IF n < 10 THEN <<Digits[n + 1]>>
    ELSE str(n \div 10) \o <<Digits[(n % 10) + 1]>>

\* format spec 0{width}d applied to a non-negative integer
zero_pad(n, width) ==
    LET s == str(n)
    IN  IF Len(s) >= width THEN s
        ELSE [k \in 1..(width - Len(s)) |-> "0"] \o s

\* Python slice seq[lo:hi] with 0 <= lo (clamped at both ends)
Slice(seq, lo, hi) ==
    LET h == IF hi > Len(seq) THEN Len(seq) ELSE IF hi < 0 THEN 0 ELSE hi
        l == IF lo < 0 THEN 0 ELSE lo
    IN  IF l >= h THEN <<>> ELSE SubSeq(seq, l + 1, h)

(***************************************************************************)
(* services/preprocessor.py                                                *)
(***************************************************************************)
\* variant: the number is written without zero padding
add_line_numbers_unpadded(text) ==
    LET lines == split(text)
        total_lines == Len(lines)
        numbered_lines == [i \in 1..total_lines |->
                              <<"[">> \o str(i) \o <<"]", " ">> \o lines[i]]
    IN  [numbered_text  |-> join(numbered_lines),
         original_lines |-> lines,
         total_lines    |-> total_lines]

\* variant: the slice end is taken as if it were inclusive
extract_lines_short(doc, start_line, end_line) ==
    LET start_idx == start_line - 1
        end_idx == end_line - 1
    IN  IF start_idx < 0 \/ end_idx > doc.total_lines \/ start_idx >= end_idx
        THEN [ok |-> FALSE, value |-> <<>>]
        ELSE [ok |-> TRUE, value |-> join(Slice(doc.original_lines, start_idx, end_idx))]

numbered_line(i, width, line) ==
    <<"[">> \o zero_pad(i, width) \o <<"]", " ">> \o line

add_line_numbers(text) ==
    LET lines == split(text)
        total_lines == Len(lines)
        width == Len(str(total_lines))
        numbered_lines == [i \in 1..total_lines |-> numbered_line(i, width, lines[i])]
    IN  [numbered_text  |-> join(numbered_lines),
         original_lines |-> lines,
         total_lines    |-> total_lines]

\* A raised ValueError is the result [ok |-> FALSE]; value is then empty.
extract_lines(doc, start_line, end_line) ==
    LET start_idx == start_line - 1
        end_idx == end_line
    IN  IF start_idx < 0 \/ end_idx > doc.total_lines \/ start_idx >= end_idx
        THEN [ok |-> FALSE, value |-> <<>>]
        ELSE [ok |-> TRUE, value |-> join(Slice(doc.original_lines, start_idx, end_idx))]

(***************************************************************************)
(* Inputs of the line indexer.                                             *)
(***************************************************************************)
MaxTextLen == 4
MaxUnitLen == 2
MaxRepeat == 9

SeqsUpTo(S, n) == UNION {[1..k -> S] : k \in 0..n}

RECURSIVE Repeat(_, _)
Repeat(u, k) == IF k = 0 THEN <<>> ELSE u \o Repeat(u, k - 1)

\* every short text, and longer texts made of a repeated unit (these reach
\* ten and more lines, where the line-number prefix is zero padded)
InputTexts ==
    SeqsUpTo(Chars, MaxTextLen)
    \cup {Repeat(u, k) : u \in SeqsUpTo(Chars, MaxUnitLen), k \in 1..MaxRepeat}

NoDoc == [numbered_text |-> <<>>, original_lines |-> <<>>, total_lines |-> 0]

NoCall == [start |-> 0, end |-> 0, res |-> [ok |-> FALSE, value |-> <<>>]]

LineArgs(doc) == 0..(doc.total_lines + 1)

LI_Init ==
    /\ li_pc = "input"
    /\ li_text \in InputTexts
    /\ li_doc = NoDoc
    /\ li_call = NoCall

LI_Idle ==
    /\ li_pc = "idle"
    /\ li_text = <<>>
    /\ li_doc = NoDoc
    /\ li_call = NoCall

\* doc = add_line_numbers(text)
AddLineNumbers ==
    /\ li_pc = "input"
    /\ li_doc' = add_line_numbers(li_text)
    /\ li_pc' = "built"
    /\ UNCHANGED <<li_text, li_call>>
    /\ UNCHANGED <<sgVars, exVars, pdVars, vrVars, nmVars, rmVars, rfVars>>

\* extract_lines(doc, start_line, end_line) on the built document
ExtractLines ==
    /\ li_pc = "built"
    /\ \E s \in LineArgs(li_doc), e \in LineArgs(li_doc) :
          li_call' = [start |-> s, end |-> e, res |-> extract_lines(li_doc, s, e)]
    /\ li_pc' = "extracted"
    /\ UNCHANGED <<li_text, li_doc>>
    /\ UNCHANGED <<sgVars, exVars, pdVars, vrVars, nmVars, rmVars, rfVars>>

\* the same call once more, on the document the first call left behind
ExtractLinesAgain ==
    /\ li_pc = "extracted"
    /\ li_call' = [li_call EXCEPT
                      !.res = extract_lines(li_doc, li_call.start, li_call.end)]
    /\ li_pc' = "repeated"
    /\ UNCHANGED <<li_text, li_doc>>
    /\ UNCHANGED <<sgVars, exVars, pdVars, vrVars, nmVars, rmVars, rfVars>>

(***************************************************************************)
(* services/segmenter.py: validate_segmentation                            *)
(*                                                                         *)
(* A section is a record [start_line, end_line, section_type,              *)
(* section_title, section_number, line_item_number].  A warning is a       *)
(* record: kind names the message, who/other the sections it mentions,     *)
(* a/b/c the numbers it prints, lines/more the list of a coverage warning. *)
(***************************************************************************)
FIRST_GAP_LIMIT == 5
PAIR_GAP_LIMIT == 3
LAST_DIFF_LIMIT == 5
COVERAGE_LIST_LIMIT == 20

Abs(x) == IF x < 0 THEN 0 - x ELSE x

Warning(kind, who, other, a, b, c) ==
    [kind |-> kind, who |-> who, other |-> other, a |-> a, b |-> b, c |-> c,
     lines |-> <<>>, more |-> FALSE]

\* section_title or section_type
Label(sec) ==
    IF sec.section_title \notin {None, ""} THEN sec.section_title
    ELSE sec.section_type

\* sorted(seq, key=start_line): stable insertion by start_line
RECURSIVE InsertByStart(_, _)
InsertByStart(x, seq) ==
    IF Len(seq) = 0 THEN <<x>>
    ELSE IF seq[Len(seq)].start_line <= x.start_line THEN Append(seq, x)
    ELSE Append(InsertByStart(x, SubSeq(seq, 1, Len(seq) - 1)), seq[Len(seq)])

RECURSIVE SortFrom(_, _, _)
SortFrom(seq, i, acc) ==
    IF i > Len(seq) THEN acc
    ELSE SortFrom(seq, i + 1, InsertByStart(seq[i], acc))

\* variant: the list is taken in the order given
as_given(seq) == seq

sorted_by_start(seq) == SortFrom(seq, 1, <<>>)

\* sorted(S) for a finite set of integers
RECURSIVE SortedSeq(_)
SortedSeq(S) ==
    IF S = {} THEN <<>>
    ELSE LET m == CHOOSE x \in S : \A y \in S : x <= y
         IN  <<m>> \o SortedSeq(S \ {m})

\* lines 151-158: the first section should start at line 1
first_fix(st) ==
    LET first == st.sections[1]
        gap == first.start_line - 1
    IN  IF first.start_line # 1
        THEN IF gap <= FIRST_GAP_LIMIT
             THEN [sections |-> [st.sections EXCEPT ![1].start_line = 1],
                   warnings |-> Append(st.warnings,
                       Warning("fixed_first", Label(first), None, 1 + gap, 0, 0))]
             ELSE [sections |-> st.sections,
                   warnings |-> Append(st.warnings,
                       Warning("first_gap", Label(first), None, first.start_line, 0, 0))]
        ELSE st

\* variant: an overlap is reported by nobody and left in place
pair_step_tolerant(st, i) ==
    LET current == st.sections[i]
        next_sec == st.sections[i + 1]
        gap == next_sec.start_line - current.end_line - 1
        moved == [current EXCEPT !.end_line = next_sec.start_line - 1]
    IN  IF gap > 0 /\ gap <= PAIR_GAP_LIMIT
        THEN [sections |-> [st.sections EXCEPT ![i] = moved],
              warnings |-> Append(st.warnings,
                  Warning("fixed_gap", Label(current), None,
                          current.end_line, next_sec.start_line - 1, gap))]
        ELSE IF gap > PAIR_GAP_LIMIT
        THEN [sections |-> st.sections,
              warnings |-> Append(st.warnings,
                  Warning("gap", Label(current), Label(next_sec),
                          gap, current.end_line, next_sec.start_line))]
        ELSE st

\* variant: every gap is closed, whatever its size
pair_step_closing(st, i) ==
    LET current == st.sections[i]
        next_sec == st.sections[i + 1]
        gap == next_sec.start_line - current.end_line - 1
        overlap == current.end_line - next_sec.start_line + 1
        moved == [current EXCEPT !.end_line = next_sec.start_line - 1]
    IN  IF gap > 0
        THEN [sections |-> [st.sections EXCEPT ![i] = moved],
              warnings |-> Append(st.warnings,
                  Warning("fixed_gap", Label(current), None,
                          current.end_line, next_sec.start_line - 1, gap))]
        ELSE IF overlap > 0
        THEN [sections |-> [st.sections EXCEPT ![i] = moved],
              warnings |-> Append(st.warnings,
                  Warning("fixed_overlap", Label(current), None,
                          current.end_line, next_sec.start_line - 1, overlap))]
        ELSE st

\* lines 161-187: one iteration of the loop over adjacent pairs
pair_step(st, i) ==
    LET current == st.sections[i]
        next_sec == st.sections[i + 1]
        gap == next_sec.start_line - current.end_line - 1
        overlap == current.end_line - next_sec.start_line + 1
        moved == [current EXCEPT !.end_line = next_sec.start_line - 1]
        g == IF gap > 0 /\ gap <= PAIR_GAP_LIMIT
             THEN [sections |-> [st.sections EXCEPT ![i] = moved],
                   warnings |-> Append(st.warnings,
                       Warning("fixed_gap", Label(current), None,
                               current.end_line, next_sec.start_line - 1, gap))]
             ELSE IF gap > PAIR_GAP_LIMIT
             THEN [sections |-> st.sections,
                   warnings |-> Append(st.warnings,
                       Warning("gap", Label(current), Label(next_sec),
                               gap, current.end_line, next_sec.start_line))]
             ELSE st
    IN  IF overlap > 0
        THEN [sections |-> [g.sections EXCEPT ![i] = moved],
              warnings |-> Append(g.warnings,
                  Warning("fixed_overlap", Label(current), None,
                          current.end_line, next_sec.start_line - 1, overlap))]
        ELSE g

RECURSIVE pair_loop(_, _)
pair_loop(st, i) ==
    IF i > Len(st.sections) - 1 THEN st
    ELSE pair_loop(pair_step(st, i), i + 1)

\* variant: the last section is always moved to total_lines
last_fix_unbounded(st, total_lines) ==
    LET k == Len(st.sections)
        last == st.sections[k]
    IN  IF last.end_line # total_lines
        THEN [sections |-> [st.sections EXCEPT ![k].end_line = total_lines],
              warnings |-> Append(st.warnings,
                  Warning("fixed_last", Label(last), None, total_lines, last.end_line, 0))]
        ELSE st

\* lines 189-197: the last section should end at total_lines
last_fix(st, total_lines) ==
    LET k == Len(st.sections)
        last == st.sections[k]
        diff == total_lines - last.end_line
    IN  IF last.end_line # total_lines
        THEN IF Abs(diff) <= LAST_DIFF_LIMIT
             THEN [sections |-> [st.sections EXCEPT ![k].end_line = total_lines],
                   warnings |-> Append(st.warnings,
                       Warning("fixed_last", Label(last), None, total_lines, last.end_line, 0))]
             ELSE IF diff > 0
             THEN [sections |-> st.sections,
                   warnings |-> Append(st.warnings,
                       Warning("last_short", Label(last), None, last.end_line, total_lines, 0))]
             ELSE st
        ELSE st

\* lines 199-208: lines of 1..total_lines that no section covers
covered_lines(sections) ==
    UNION {sections[k].start_line..sections[k].end_line : k \in 1..Len(sections)}

\* variant: the expected lines stop one short of total_lines
coverage_check_short(st, total_lines) ==
    LET missing == (1..(total_lines - 1)) \ covered_lines(st.sections)
        listed == SortedSeq(missing)
    IN  IF missing # {}
        THEN [sections |-> st.sections,
              warnings |-> Append(st.warnings,
                  [kind |-> "not_covered", who |-> None, other |-> None,
                   a |-> 0, b |-> 0, c |-> 0,
                   lines |-> Slice(listed, 0, COVERAGE_LIST_LIMIT),
                   more |-> Len(listed) > COVERAGE_LIST_LIMIT])]
        ELSE st

coverage_check(st, total_lines) ==
    LET missing == (1..total_lines) \ covered_lines(st.sections)
        listed == SortedSeq(missing)
    IN  IF missing # {}
        THEN [sections |-> st.sections,
              warnings |-> Append(st.warnings,
                  [kind |-> "not_covered", who |-> None, other |-> None,
                   a |-> 0, b |-> 0, c |-> 0,
                   lines |-> Slice(listed, 0, COVERAGE_LIST_LIMIT),
                   more |-> Len(listed) > COVERAGE_LIST_LIMIT])]
        ELSE st

validate_segmentation(sections, total_lines) ==
    IF Len(sections) = 0
    THEN [sections |-> sections,
          warnings |-> <<Warning("no_sections", None, None, 0, 0, 0)>>]
    ELSE LET s0 == [sections |-> sorted_by_start(sections), warnings |-> <<>>]
             s1 == first_fix(s0)
             s2 == pair_loop(s1, 1)
             s3 == last_fix(s2, total_lines)
         IN  coverage_check(s3, total_lines)

(***************************************************************************)
(* Inputs of validate_segmentation: the lists segment_document can build.  *)
(* SectionReference requires start_line >= 1 and end_line >= 1 and nothing *)
(* else (models/segmentation.py), so inverted and out-of-document ranges   *)
(* are inputs.  Lists of up to two sections take their line numbers from   *)
(* 1..MaxDense and from FarLines; lists of three from 1..MaxDense3.  The   *)
(* far lines and totals make more than COVERAGE_LIST_LIMIT lines uncovered.*)
(***************************************************************************)
MaxDense == 7
MaxDense3 == 3

FarLines == {10, 15, 23, 30}

SegLines == (1..MaxDense) \cup FarLines

FarTotals == {23, 30}

SegTotals == {1, MaxDense} \cup FarTotals

PosType == <<"header", "terms_and_conditions", "line_item">>

PosTitle == <<None, "SECTION 1", "ITEM 1">>

SegSection(pos, s, e) ==
    [start_line |-> s, end_line |-> e,
     section_type |-> PosType[pos], section_title |-> PosTitle[pos],
     section_number |-> IF pos = 2 THEN "1" ELSE None,
     line_item_number |-> IF pos = 3 THEN 1 ELSE 0]

SegInputs ==
    {<<>>}
    \cup {<<SegSection(1, s1, e1)>> : s1 \in SegLines, e1 \in SegLines}
    \cup {<<SegSection(1, r1[1], r1[2]), SegSection(2, r2[1], r2[2])>> :
            r1 \in SegLines \X SegLines, r2 \in SegLines \X SegLines}
    \cup {<<SegSection(1, r1[1], r1[2]), SegSection(2, r2[1], r2[2]),
            SegSection(3, r3[1], r3[2])>> :
            r1 \in (1..MaxDense3) \X (1..MaxDense3),
            r2 \in (1..MaxDense3) \X (1..MaxDense3),
            r3 \in (1..MaxDense3) \X (1..MaxDense3)}

SG_Init ==
    /\ sg_pc = "input"
    /\ sg_total \in SegTotals
    /\ sg_in \in SegInputs
    /\ sg_out = <<>>
    /\ sg_warnings = <<>>
    /\ sg_i = 0

SG_Idle ==
    /\ sg_pc = "idle"
    /\ sg_total = 0
    /\ sg_in = <<>>
    /\ sg_out = <<>>
    /\ sg_warnings = <<>>
    /\ sg_i = 0

\* lines 143-149: early return on an empty list, else sort into a new list
SegSort ==
    /\ sg_pc = "input"
    /\ IF Len(sg_in) = 0
       THEN /\ sg_out' = sg_in
            /\ sg_warnings' = <<Warning("no_sections", None, None, 0, 0, 0)>>
            /\ sg_pc' = "done"
       ELSE /\ sg_out' = sorted_by_start(sg_in)
            /\ sg_warnings' = <<>>
            /\ sg_pc' = "first"
    /\ UNCHANGED <<sg_total, sg_in, sg_i>>
    /\ UNCHANGED <<liVars, exVars, pdVars, vrVars, nmVars, rmVars, rfVars>>

\* lines 151-158
SegFirstFix ==
    /\ sg_pc = "first"
    /\ LET r == first_fix([sections |-> sg_out, warnings |-> sg_warnings])
       IN  /\ sg_out' = r.sections
           /\ sg_warnings' = r.warnings
    /\ sg_i' = 1
    /\ sg_pc' = "pairs"
    /\ UNCHANGED <<sg_total, sg_in>>
    /\ UNCHANGED <<liVars, exVars, pdVars, vrVars, nmVars, rmVars, rfVars>>

\* lines 160-187: one iteration, or leaving the loop
SegPairStep ==
    /\ sg_pc = "pairs"
    /\ IF sg_i <= Len(sg_out) - 1
       THEN LET r == pair_step([sections |-> sg_out, warnings |-> sg_warnings], sg_i)
            IN  /\ sg_out' = r.sections
                /\ sg_warnings' = r.warnings
                /\ sg_i' = sg_i + 1
                /\ sg_pc' = "pairs"
       ELSE /\ sg_pc' = "last"
            /\ UNCHANGED <<sg_out, sg_warnings, sg_i>>
    /\ UNCHANGED <<sg_total, sg_in>>
    /\ UNCHANGED <<liVars, exVars, pdVars, vrVars, nmVars, rmVars, rfVars>>

\* lines 189-197
SegLastFix ==
    /\ sg_pc = "last"
    /\ LET r == last_fix([sections |-> sg_out, warnings |-> sg_warnings], sg_total)
       IN  /\ sg_out' = r.sections
           /\ sg_warnings' = r.warnings
    /\ sg_pc' = "coverage"
    /\ UNCHANGED <<sg_total, sg_in, sg_i>>
    /\ UNCHANGED <<liVars, exVars, pdVars, vrVars, nmVars, rmVars, rfVars>>

\* lines 199-210: coverage check and return
SegCoverage ==
    /\ sg_pc = "coverage"
    /\ LET r == coverage_check([sections |-> sg_out, warnings |-> sg_warnings], sg_total)
       IN  /\ sg_out' = r.sections
           /\ sg_warnings' = r.warnings
    /\ sg_pc' = "done"
    /\ UNCHANGED <<sg_total, sg_in, sg_i>>
    /\ UNCHANGED <<liVars, exVars, pdVars, vrVars, nmVars, rmVars, rfVars>>

(***************************************************************************)
(* services/clause_extractor.py: oracle calls, chunking, per-section       *)
(* extraction.  A clause reference is a record [start_line, end_line,      *)
(* clause_number, clause_title, chunk_type].  An oracle reply is           *)
(* [parsed, clauses]: parsed = FALSE is message.parsed being None.         *)
(***************************************************************************)
TOKENS_PER_LINE == 15
MAX_CONTEXT_TOKENS == 100000
chunk_overlap == 50

MAX_LINES_PER_CHUNK == MAX_CONTEXT_TOKENS \div TOKENS_PER_LINE

Min(a, b) == IF a < b THEN a ELSE b

ClauseRef(s, e) ==
    [start_line |-> s, end_line |-> e, clause_number |-> None,
     clause_title |-> None, chunk_type |-> "clause"]

\* _extract_chunk after the call returned: a None parse raises, and so does
\* ClauseReference (start_line >= 1, end_line >= 1) on a shifted boundary
\* below 1; otherwise every boundary is shifted by line_offset
extract_chunk(reply, line_offset) ==
    IF ~reply.parsed
    THEN [ok |-> FALSE, clauses |-> <<>>]
    ELSE IF \E k \in 1..Len(reply.clauses) :
               \/ reply.clauses[k].start_line + line_offset < 1
               \/ reply.clauses[k].end_line + line_offset < 1
    THEN [ok |-> FALSE, clauses |-> <<>>]
    ELSE [ok |-> TRUE,
          clauses |-> [k \in 1..Len(reply.clauses) |->
                         [reply.clauses[k] EXCEPT
                            !.start_line = @ + line_offset,
                            !.end_line = @ + line_offset]]]

\* lines 171-180: boundaries of a later chunk that are kept
RECURSIVE FilterSeq(_, _, _)
FilterSeq(seq, lo, hi) ==
    IF Len(seq) = 0 THEN <<>>
    ELSE LET c == seq[1]
             rest == FilterSeq(Tail(seq), lo, hi)
         IN  IF c.start_line >= hi \/ c.end_line <= lo THEN <<c>> \o rest ELSE rest

stitch_filter(all_clauses, chunk_clauses, chunk_start) ==
    IF Len(all_clauses) > 0 /\ chunk_start > 0
    THEN FilterSeq(chunk_clauses, chunk_start, chunk_start + chunk_overlap)
    ELSE chunk_clauses

\* number of numbered lines _slice_numbered_text hands over for a range
\* with start_line >= 1: len(numbered_lines[start_line - 1:end_line])
slice_line_count(total_lines, start_line, end_line) ==
    LET lo == Min(start_line - 1, total_lines)
        hi == Min(end_line, total_lines)
    IN  IF hi > lo THEN hi - lo ELSE 0

(***************************************************************************)
(* Inputs of clause extraction: document lengths around one, two, ...      *)
(* MaxChunks windows, and oracle replies of at most one boundary whose     *)
(* local line numbers lie at the edges of the window and of the overlap.   *)
(***************************************************************************)
MaxChunks == 2

ExTotals ==
    {1, 2, chunk_overlap + 1}
    \cup {j * MAX_LINES_PER_CHUNK - (j - 1) * chunk_overlap + d :
            j \in 1..MaxChunks, d \in {0 - 1, 0, 1}}

LocalLines(len) ==
    {0, 1, chunk_overlap - 1, chunk_overlap, chunk_overlap + 1, len}

OracleReplies(len) ==
    {[parsed |-> FALSE, clauses |-> <<>>], [parsed |-> TRUE, clauses |-> <<>>]}
    \cup {[parsed |-> TRUE, clauses |-> <<ClauseRef(s, e)>>] :
            s \in LocalLines(len), e \in LocalLines(len)}

SectionRanges(total_lines) ==
    {<<1, total_lines>>, <<2, total_lines>>,
     <<1, Min(total_lines, MAX_LINES_PER_CHUNK)>>}

\* no known structure: the oracle may answer anything
NoTruth == [known |-> FALSE, clauses |-> <<>>]

\* the true clauses that lie wholly within lines chunk_start + 1 ..
\* chunk_start + len, in the window's own numbering (renumbered from 1)
RECURSIVE VisibleClauses(_, _, _)
VisibleClauses(clauses, chunk_start, len) ==
    IF Len(clauses) = 0 THEN <<>>
    ELSE LET c == clauses[1]
             rest == VisibleClauses(Tail(clauses), chunk_start, len)
         IN  IF c.start_line >= chunk_start + 1 /\ c.end_line <= chunk_start + len
             THEN <<[c EXCEPT !.start_line = @ - chunk_start,
                              !.end_line = @ - chunk_start]>> \o rest
             ELSE rest

\* the replies the oracle can give for the window of len lines that
\* starts after line chunk_start
ChunkReplies(truth, chunk_start, len) ==
    IF truth.known
    THEN {[parsed |-> TRUE, clauses |-> VisibleClauses(truth.clauses, chunk_start, len)]}
    ELSE OracleReplies(len)

EX_Init ==
    /\ ex_truth = NoTruth
    /\ ex_pc \in {"document", "section"}
    /\ ex_total \in ExTotals
    /\ ex_range \in IF ex_pc = "section" THEN SectionRanges(ex_total)
                    ELSE {<<1, ex_total>>}
    /\ ex_chunk_start = 0
    /\ ex_all = <<>>
    /\ ex_calls = <<>>
    /\ ex_result = <<>>

EX_Idle ==
    /\ ex_truth = NoTruth
    /\ ex_pc = "idle"
    /\ ex_total = 0
    /\ ex_range = <<0, 0>>
    /\ ex_chunk_start = 0
    /\ ex_all = <<>>
    /\ ex_calls = <<>>
    /\ ex_result = <<>>

\* extract_clauses_from_document, lines 146-157: a document within the
\* limit is one call on the whole numbered text; a longer one enters the loop
ExtractDocument ==
    /\ ex_pc = "document"
    /\ IF ex_total <= MAX_LINES_PER_CHUNK
       THEN \E reply \in ChunkReplies(ex_truth, 0, ex_total) :
              LET r == extract_chunk(reply, 0)
              IN  /\ ex_calls' = Append(ex_calls, [first |-> 1, lines |-> ex_total,
                                                   returned |-> r.clauses])
                  /\ ex_result' = r.clauses
                  /\ ex_pc' = IF r.ok THEN "done" ELSE "failed"
                  /\ UNCHANGED <<ex_chunk_start, ex_all>>
       ELSE /\ ex_pc' = "loop"
            /\ ex_chunk_start' = 0
            /\ ex_all' = <<>>
            /\ UNCHANGED <<ex_calls, ex_result>>
    /\ UNCHANGED <<ex_total, ex_range, ex_truth>>
    /\ UNCHANGED <<liVars, sgVars, pdVars, vrVars, nmVars, rmVars, rfVars>>

\* variant: the next window starts where the previous one ended
next_chunk_start_abutting(chunk_end) == chunk_end

\* line 185: the start of the next window
next_chunk_start(chunk_end) == chunk_end - chunk_overlap

\* variant: the loop is left two overlaps before the end of the document
leaves_loop_early(chunk_start, total_lines) ==
    chunk_start >= total_lines - 2 * chunk_overlap

\* line 186: the break test, on the start of the next window
leaves_loop(chunk_start, total_lines) ==
    chunk_start >= total_lines - chunk_overlap

\* lines 159-192: one iteration of the chunk loop, and the sorted return
\* when the loop is left
ExtractChunk ==
    /\ ex_pc = "loop"
    /\ IF ex_chunk_start < ex_total
       THEN LET chunk_end == Min(ex_chunk_start + MAX_LINES_PER_CHUNK, ex_total)
                next_start == next_chunk_start(chunk_end)
            IN  \E reply \in ChunkReplies(ex_truth, ex_chunk_start,
                                           chunk_end - ex_chunk_start) :
                  LET r == extract_chunk(reply, ex_chunk_start)
                      kept == stitch_filter(ex_all, r.clauses, ex_chunk_start)
                  IN  /\ ex_calls' = Append(ex_calls,
                                        [first |-> ex_chunk_start + 1,
                                         lines |-> chunk_end - ex_chunk_start,
                                         returned |-> r.clauses])
                      /\ IF ~r.ok
                         THEN /\ ex_pc' = "failed"
                              /\ UNCHANGED <<ex_all, ex_chunk_start, ex_result>>
                         ELSE /\ ex_all' = ex_all \o kept
                              /\ ex_chunk_start' = next_start
                              /\ IF leaves_loop(next_start, ex_total)
                                 THEN /\ ex_result' = sorted_by_start(ex_all \o kept)
                                      /\ ex_pc' = "done"
                                 ELSE /\ ex_pc' = "loop"
                                      /\ UNCHANGED ex_result
       ELSE /\ ex_result' = sorted_by_start(ex_all)
            /\ ex_pc' = "done"
            /\ UNCHANGED <<ex_all, ex_chunk_start, ex_calls>>
    /\ UNCHANGED <<ex_total, ex_range, ex_truth>>
    /\ UNCHANGED <<liVars, sgVars, pdVars, vrVars, nmVars, rmVars, rfVars>>

\* extract_clauses_from_section, lines 353-375: the section's slice of the
\* numbered text goes into one call, with no line offset
ExtractSection ==
    /\ ex_pc = "section"
    /\ LET n == slice_line_count(ex_total, ex_range[1], ex_range[2])
       IN  \E reply \in OracleReplies(n) :
             LET r == extract_chunk(reply, 0)
             IN  /\ ex_calls' = Append(ex_calls, [first |-> ex_range[1], lines |-> n,
                                                  returned |-> r.clauses])
                 /\ ex_result' = r.clauses
                 /\ ex_pc' = IF r.ok THEN "done" ELSE "failed"
    /\ UNCHANGED <<ex_total, ex_range, ex_chunk_start, ex_all, ex_truth>>
    /\ UNCHANGED <<liVars, sgVars, pdVars, vrVars, nmVars, rmVars, rfVars>>

(***************************************************************************)
(* services/clause_extractor.py: validate_references.  A warning is a      *)
(* record [kind, current, next, gap, issues]; kind is "invalid", "overlap" *)
(* or "gap".                                                               *)
(***************************************************************************)
REF_GAP_LIMIT == 10

\* the bounds checks without the start_line > end_line check
ref_issues_lenient(ref, total_lines) ==
    (IF ref.start_line < 1 THEN <<"start_line < 1">> ELSE <<>>)
    \o (IF ref.end_line > total_lines THEN <<"end_line > document length">> ELSE <<>>)

\* lines 215-220: the issues of one reference
ref_issues(ref, total_lines) ==
    (IF ref.start_line < 1 THEN <<"start_line < 1">> ELSE <<>>)
    \o (IF ref.end_line > total_lines THEN <<"end_line > document length">> ELSE <<>>)
    \o (IF ref.start_line > ref.end_line THEN <<"start_line > end_line">> ELSE <<>>)

\* lines 212-225: the loop over refs
RECURSIVE check_refs(_, _)
check_refs(refs, total_lines) ==
    IF Len(refs) = 0 THEN [valid_refs |-> <<>>, warnings |-> <<>>]
    ELSE LET ref == refs[1]
             issues == ref_issues(ref, total_lines)
             rest == check_refs(Tail(refs), total_lines)
         IN  IF Len(issues) > 0
             THEN [valid_refs |-> rest.valid_refs,
                   warnings |-> <<[kind |-> "invalid", current |-> ref, next |-> ref,
                                   gap |-> 0, issues |-> issues]>> \o rest.warnings]
             ELSE [valid_refs |-> <<ref>> \o rest.valid_refs,
                   warnings |-> rest.warnings]

\* lines 229-237
RECURSIVE overlap_from(_, _)
overlap_from(sorted_refs, i) ==
    IF i >= Len(sorted_refs) THEN <<>>
    ELSE (IF sorted_refs[i].end_line >= sorted_refs[i + 1].start_line
          THEN <<[kind |-> "overlap", current |-> sorted_refs[i],
                  next |-> sorted_refs[i + 1], gap |-> 0, issues |-> <<>>]>>
          ELSE <<>>) \o overlap_from(sorted_refs, i + 1)

overlap_warnings(sorted_refs) == overlap_from(sorted_refs, 1)

\* lines 240-248
RECURSIVE gap_from(_, _)
gap_from(sorted_refs, i) ==
    IF i >= Len(sorted_refs) THEN <<>>
    ELSE LET gap == sorted_refs[i + 1].start_line - sorted_refs[i].end_line
         IN  (IF gap > REF_GAP_LIMIT
              THEN <<[kind |-> "gap", current |-> sorted_refs[i],
                      next |-> sorted_refs[i + 1], gap |-> gap, issues |-> <<>>]>>
              ELSE <<>>) \o gap_from(sorted_refs, i + 1)

gap_warnings(sorted_refs) == gap_from(sorted_refs, 1)

validate_references(refs, total_lines) ==
    LET checked == check_refs(refs, total_lines)
        sorted_refs == sorted_by_start(checked.valid_refs)
    IN  [valid_refs |-> checked.valid_refs,
         warnings |-> checked.warnings \o overlap_warnings(sorted_refs)
                      \o gap_warnings(sorted_refs)]

(***************************************************************************)
(* Inputs of validate_references: lists of at most two references over the *)
(* lines 1..MaxRefLine and a few lines further on, lists of three over     *)
(* 1..MaxRefLine.  ClauseReference requires start_line >= 1, end_line >= 1.*)
(***************************************************************************)
MaxRefLine == 3

FarRefLines == {5, 12, 13, 14}

RefLines == (1..MaxRefLine) \cup FarRefLines

RefTotals == {MaxRefLine, 13}

RefInputs ==
    {<<>>}
    \cup {<<ClauseRef(s1, e1)>> : s1 \in RefLines, e1 \in RefLines}
    \cup {<<ClauseRef(s1, e1), ClauseRef(s2, e2)>> :
            s1 \in RefLines, e1 \in RefLines, s2 \in RefLines, e2 \in RefLines}
    \cup {<<ClauseRef(s1, e1), ClauseRef(s2, e2), ClauseRef(s3, e3)>> :
            s1 \in 1..MaxRefLine, e1 \in 1..MaxRefLine,
            s2 \in 1..MaxRefLine, e2 \in 1..MaxRefLine,
            s3 \in 1..MaxRefLine, e3 \in 1..MaxRefLine}

VR_Init ==
    /\ vr_pc = "call"
    /\ vr_refs \in RefInputs
    /\ vr_total \in RefTotals
    /\ vr_valid = <<>>
    /\ vr_warnings = <<>>

VR_Idle ==
    /\ vr_pc = "idle"
    /\ vr_refs = <<>>
    /\ vr_total = 0
    /\ vr_valid = <<>>
    /\ vr_warnings = <<>>

ValidateReferences ==
    /\ vr_pc = "call"
    /\ LET r == validate_references(vr_refs, vr_total)
       IN  /\ vr_valid' = r.valid_refs
           /\ vr_warnings' = r.warnings
    /\ vr_pc' = "done"
    /\ UNCHANGED <<vr_refs, vr_total>>
    /\ UNCHANGED <<liVars, sgVars, exVars, pdVars, nmVars, rmVars, rfVars>>

(***************************************************************************)
(* services/reference_matcher.py: _normalize_identifier and                *)
(* _normalize_version, on strings as sequences of characters.              *)
(***************************************************************************)
TAB == "\t"

\* the characters str.strip() removes
Whitespace == {" ", TAB, NL}

RECURSIVE lstrip(_)
lstrip(s) ==
    IF Len(s) > 0 /\ s[1] \in Whitespace THEN lstrip(Tail(s)) ELSE s

RECURSIVE rstrip(_)
rstrip(s) ==
    IF Len(s) > 0 /\ s[Len(s)] \in Whitespace
    THEN rstrip(SubSeq(s, 1, Len(s) - 1)) ELSE s

strip(s) == rstrip(lstrip(s))

Lowercase == <<"a", "b", "c", "d", "e", "p", "q", "r", "s", "v", "x">>

Uppercase == <<"A", "B", "C", "D", "E", "P", "Q", "R", "S", "V", "X">>

upper_char(c) ==
    IF \E k \in 1..Len(Lowercase) : Lowercase[k] = c
    THEN Uppercase[CHOOSE k \in 1..Len(Lowercase) : Lowercase[k] = c]
    ELSE c

lower_char(c) ==
    IF \E k \in 1..Len(Uppercase) : Uppercase[k] = c
    THEN Lowercase[CHOOSE k \in 1..Len(Uppercase) : Uppercase[k] = c]
    ELSE c

upper(s) == [i \in 1..Len(s) |-> upper_char(s[i])]

lower(s) == [i \in 1..Len(s) |-> lower_char(s[i])]

\* s.replace(ch, "")
RECURSIVE remove_char(_, _)
remove_char(s, ch) ==
    IF Len(s) = 0 THEN <<>>
    ELSE IF s[1] = ch THEN remove_char(Tail(s), ch)
    ELSE <<s[1]>> \o remove_char(Tail(s), ch)

normalize_identifier(identifier) ==
    remove_char(remove_char(remove_char(upper(strip(identifier)), " "), "-"), "_")

normalize_version(version) == remove_char(lower(strip(version)), " ")

(***************************************************************************)
(* Inputs of the normalizer: identifiers of at most MaxIdLen characters,   *)
(* and for each the identifiers one edit away that differ from it only in  *)
(* case, a space, a hyphen or an underscore.                               *)
(***************************************************************************)
MaxIdLen == 3

IdChars == {"a", "A", "1", " ", "-", "_", TAB}

Identifiers == SeqsUpTo(IdChars, MaxIdLen)

Separators == {" ", "-", "_"}

Variants(s) ==
    {SubSeq(s, 1, k) \o <<c>> \o SubSeq(s, k + 1, Len(s)) :
        k \in 0..Len(s), c \in Separators}
    \cup {[s EXCEPT ![k] = upper_char(s[k])] : k \in 1..Len(s)}
    \cup {[s EXCEPT ![k] = lower_char(s[k])] : k \in 1..Len(s)}

NM_Init ==
    /\ nm_pc = "call"
    /\ nm_in \in Identifiers
    /\ nm_variant \in Variants(nm_in)
    /\ nm_out = <<>>
    /\ nm_again = <<>>

NM_Idle ==
    /\ nm_pc = "idle"
    /\ nm_in = <<>>
    /\ nm_variant = <<>>
    /\ nm_out = <<>>
    /\ nm_again = <<>>

NormalizeIdentifier ==
    /\ nm_pc = "call"
    /\ nm_out' = <<normalize_identifier(nm_in), normalize_identifier(nm_variant)>>
    /\ nm_pc' = "done"
    /\ UNCHANGED <<nm_in, nm_variant, nm_again>>
    /\ UNCHANGED <<liVars, sgVars, exVars, pdVars, vrVars, rmVars, rfVars>>

NormalizeAgain ==
    /\ nm_pc = "done"
    /\ nm_again' = normalize_identifier(nm_out[1])
    /\ nm_pc' = "again"
    /\ UNCHANGED <<nm_in, nm_variant, nm_out>>
    /\ UNCHANGED <<liVars, sgVars, exVars, pdVars, vrVars, rmVars, rfVars>>

(***************************************************************************)
(* services/reference_matcher.py: detection and matching of references.    *)
(* An optional string is a sequence of characters or NoString (None); a    *)
(* missing reference_document_id is 0.                                     *)
(***************************************************************************)
NoString == <<"None">>

\* truth value of an optional string: None and "" are false
Truthy(x) == x # NoString /\ x # <<>>

\* the query without its customer filter
customer_ref_docs_all(library, customer_id) == library

\* lines 121-125
customer_ref_docs(library, customer_id) ==
    SelectSeq(library, LAMBDA rd : rd.customer_id = customer_id)

\* the lookup keyed by the identifier as stored
matching_docs_raw(ref_docs, norm_id) ==
    SelectSeq(ref_docs,
              LAMBDA rd : /\ Truthy(rd.doc_identifier)
                          /\ rd.doc_identifier = norm_id)

\* lines 128-132 and 146: ref_doc_lookup.get(norm_id, [])
matching_docs(ref_docs, norm_id) ==
    SelectSeq(ref_docs,
              LAMBDA rd : /\ Truthy(rd.doc_identifier)
                          /\ normalize_identifier(rd.doc_identifier) = norm_id)

NoClause == [id |-> 0, start_line |-> 0, end_line |-> 0]

\* lines 116-118 and 135-141: the last clause with exactly the detected
\* line range, else the first clause with the detected start line
find_clause(clauses, det) ==
    LET exact == {k \in 1..Len(clauses) :
                    /\ clauses[k].start_line = det.clause_start_line
                    /\ clauses[k].end_line = det.clause_end_line}
        fuzzy == {k \in 1..Len(clauses) :
                    clauses[k].start_line = det.clause_start_line}
    IN  IF exact # {} THEN clauses[CHOOSE k \in exact : \A j \in exact : j <= k]
        ELSE IF fuzzy # {} THEN clauses[CHOOSE k \in fuzzy : \A j \in fuzzy : k <= j]
        ELSE NoClause

\* lines 162-174: the loop over matching_docs from index i on; exact_match
\* and partial_match are ids, 0 for None
RECURSIVE version_loop(_, _, _, _)
version_loop(docs, i, det_version, partial_match) ==
    IF i > Len(docs)
    THEN [exact_match |-> 0, partial_match |-> partial_match]
    ELSE LET rd == docs[i]
         IN  IF Truthy(det_version) /\ Truthy(rd.version)
             THEN IF normalize_version(rd.version) = normalize_version(det_version)
                  THEN [exact_match |-> rd.id, partial_match |-> partial_match]
                  ELSE version_loop(docs, i + 1, det_version, rd.id)
             ELSE IF ~Truthy(det_version)
             THEN [exact_match |-> rd.id, partial_match |-> partial_match]
             ELSE version_loop(docs, i + 1, det_version, rd.id)

\* lines 145-198: the link for one detected reference of a found clause
match_link(det, clause, ref_docs) ==
    LET docs == matching_docs(ref_docs, normalize_identifier(det.spec_identifier))
        m == version_loop(docs, 1, det.version, 0)
        base == [clause_id |-> clause.id,
                 detected_spec_identifier |-> det.spec_identifier,
                 detected_version |-> det.version,
                 reference_document_id |-> 0,
                 match_status |-> "unresolved"]
    IN  IF Len(docs) = 0 THEN base
        ELSE IF m.exact_match # 0
        THEN [base EXCEPT !.reference_document_id = m.exact_match,
                          !.match_status = "matched"]
        ELSE IF m.partial_match # 0
        THEN [base EXCEPT !.reference_document_id = m.partial_match,
                          !.match_status = "partial"]
        ELSE base

\* lines 134-202
RECURSIVE match_from(_, _, _)
match_from(detected, clauses, ref_docs) ==
    IF Len(detected) = 0 THEN <<>>
    ELSE LET det == detected[1]
             clause == find_clause(clauses, det)
             rest == match_from(Tail(detected), clauses, ref_docs)
         IN  IF clause = NoClause THEN rest
             ELSE <<match_link(det, clause, ref_docs)>> \o rest

match_references_to_library(detected, customer_id, clauses, library) ==
    match_from(detected, clauses, customer_ref_docs(library, customer_id))

\* detect_references_in_clauses from its call on (lines 77-99): an error of
\* the call propagates, a None parse returns the empty list
detect_references_in_clauses(reply) ==
    IF reply.raised
    THEN [ok |-> FALSE, detected |-> <<>>]
    ELSE IF ~reply.parsed
    THEN [ok |-> TRUE, detected |-> <<>>]
    ELSE [ok |-> TRUE, detected |-> reply.references]

(***************************************************************************)
(* Inputs of reference matching: a library of at most MaxLibrary entries   *)
(* of two customers, a document of customer 1 with two clauses, and        *)
(* detection replies of at most two references.                            *)
(***************************************************************************)
MaxLibrary == 2

LibraryIdentifiers == {<<"a", "-", "1">>, <<"A", "1">>, NoString}

LibraryVersions == {<<"r", " ", "c">>, <<"R", "D">>, <<>>, NoString}

DetectedIdentifiers == {<<"a", " ", "1">>, <<"c">>}

DetectedVersions == {<<"R", "C">>, <<"r", "e">>, <<" ">>, <<>>, NoString}

\* entries of customer 1, and one entry of another customer that shares
\* an identifier with them
LibraryEntries ==
    ({1} \X LibraryIdentifiers \X LibraryVersions)
    \cup {<<2, <<"a", "-", "1">>, <<"r", " ", "c">>>>}

RECURSIVE Libraries(_)
Libraries(k) ==
    IF k = 0 THEN {<<>>}
    ELSE LET shorter == Libraries(k - 1)
         IN  shorter \cup
             {Append(lib, [id |-> Len(lib) + 1, customer_id |-> e[1],
                           doc_identifier |-> e[2], version |-> e[3]]) :
                lib \in {l \in shorter : Len(l) = k - 1}, e \in LibraryEntries}

MatchClauses ==
    <<[id |-> 11, start_line |-> 1, end_line |-> 2],
      [id |-> 12, start_line |-> 3, end_line |-> 4]>>

\* line ranges a detected reference can name: a clause's range, a range
\* that shares only a clause's start line, a range of no clause
DetectedRanges == {<<1, 2>>, <<3, 9>>, <<5, 6>>}

Detected(range, identifier, version) ==
    [clause_start_line |-> range[1], clause_end_line |-> range[2],
     spec_identifier |-> identifier, version |-> version, context |-> NoString]

DetectedRefs ==
    {Detected(<<1, 2>>, i, v) :
        i \in DetectedIdentifiers, v \in DetectedVersions}
    \cup {Detected(r, <<"a", " ", "1">>, <<"R", "C">>) : r \in DetectedRanges}

SecondRefs ==
    {Detected(<<3, 4>>, <<"A", "_", "1">>, <<"r", "d">>),
     Detected(<<5, 6>>, <<"c">>, NoString),
     Detected(<<1, 2>>, <<"a", " ", "1">>, NoString)}

\* a reply is [raised, parsed, references]: raised is the call ending in
\* an error, parsed = FALSE is message.parsed being None
NoReply == [raised |-> FALSE, parsed |-> FALSE, references |-> <<>>]

Parsed(references) ==
    [raised |-> FALSE, parsed |-> TRUE, references |-> references]

DetectionReplies ==
    {NoReply, [NoReply EXCEPT !.raised = TRUE], Parsed(<<>>)}
    \cup {Parsed(<<d1>>) : d1 \in DetectedRefs}
    \cup {Parsed(<<d1, d2>>) : d1 \in DetectedRefs, d2 \in SecondRefs}

\* the documents a run is started on: with a customer and clauses, without
\* a customer, without clauses
MatchDocuments ==
    {[customer_id |-> 1, clauses |-> MatchClauses],
     [customer_id |-> 0, clauses |-> MatchClauses],
     [customer_id |-> 1, clauses |-> <<>>]}

RM_Init ==
    /\ rm_pc = "detect"
    /\ \E document \in MatchDocuments :
         /\ rm_customer = document.customer_id
         /\ rm_clauses = document.clauses
    /\ rm_status = "ready"
    /\ rm_library \in Libraries(MaxLibrary)
    /\ rm_reply = NoReply
    /\ rm_detected = <<>>
    /\ rm_raised = FALSE
    /\ rm_links = <<>>

RM_Idle ==
    /\ rm_pc = "idle"
    /\ rm_customer = 0
    /\ rm_status = "idle"
    /\ rm_library = <<>>
    /\ rm_clauses = <<>>
    /\ rm_reply = NoReply
    /\ rm_detected = <<>>
    /\ rm_raised = FALSE
    /\ rm_links = <<>>

(***************************************************************************)
(* main.py: upload_document and the background task process_document.      *)
(* The task's session holds clause rows as pending until the commit that   *)
(* follows them; every other write is committed by the step that makes it. *)
(***************************************************************************)

\* segment_document after the call returned: a None parse raises, and so
\* does SectionReference (start_line >= 1, end_line >= 1)
segment_document(reply) ==
    IF ~reply.parsed
    THEN [ok |-> FALSE, sections |-> <<>>]
    ELSE IF \E k \in 1..Len(reply.sections) :
               reply.sections[k].start_line < 1 \/ reply.sections[k].end_line < 1
    THEN [ok |-> FALSE, sections |-> <<>>]
    ELSE [ok |-> TRUE, sections |-> reply.sections]

\* extract_clauses_from_section after the call returned (no line offset)
extract_clauses_from_section(reply) == extract_chunk(reply, 0)

\* lines 221-227
scope_type_of(sec) ==
    IF sec.section_type = "terms_and_conditions" THEN "po_wide"
    ELSE IF sec.section_type = "line_item" THEN "line_specific"
    ELSE None

\* the Clause row stores the section's range with the clause's text
clause_row_section_range(document_id, idx, sec, ref, clause_text) ==
    [document_id |-> document_id, section_id |-> <<document_id, idx>>,
     start_line |-> sec.start_line, end_line |-> sec.end_line,
     clause_number |-> ref.clause_number, clause_title |-> ref.clause_title,
     chunk_type |-> ref.chunk_type, text |-> clause_text,
     review_status |-> "unreviewed",
     scope_type |-> scope_type_of(sec),
     applicable_lines |->
        IF sec.section_type = "line_item" /\ sec.line_item_number # 0
        THEN <<"[">> \o str(sec.line_item_number) \o <<"]">>
        ELSE <<>>]

\* variant: every section row is stored under the first document
section_row_of_first(document_id, idx, sec, section_text) ==
    [document_id |-> 1, order_index |-> idx,
     start_line |-> sec.start_line, end_line |-> sec.end_line,
     section_type |-> sec.section_type, section_title |-> sec.section_title,
     section_number |-> sec.section_number,
     line_item_number |-> sec.line_item_number,
     text |-> section_text]

\* DBSection(...) of lines 160-170; the row id is (document_id, order_index)
section_row(document_id, idx, sec, section_text) ==
    [document_id |-> document_id, order_index |-> idx,
     start_line |-> sec.start_line, end_line |-> sec.end_line,
     section_type |-> sec.section_type, section_title |-> sec.section_title,
     section_number |-> sec.section_number,
     line_item_number |-> sec.line_item_number,
     text |-> section_text]

\* Clause(...) of lines 239-255; applicable_lines is the characters of
\* "[n]", and the empty sequence where the code stores None
clause_row(document_id, idx, sec, ref, clause_text) ==
    [document_id |-> document_id, section_id |-> <<document_id, idx>>,
     start_line |-> ref.start_line, end_line |-> ref.end_line,
     clause_number |-> ref.clause_number, clause_title |-> ref.clause_title,
     chunk_type |-> ref.chunk_type, text |-> clause_text,
     review_status |-> "unreviewed",
     scope_type |-> scope_type_of(sec),
     applicable_lines |->
        IF sec.section_type = "line_item" /\ sec.line_item_number # 0
        THEN <<"[">> \o str(sec.line_item_number) \o <<"]">>
        ELSE <<>>]

\* lines 157-173: rows for the sections in order, up to the first section
\* whose extract_lines raises; ok tells whether the loop ran to its end
RECURSIVE save_sections(_, _, _, _)
save_sections(document_id, doc, sections, idx) ==
    IF idx >= Len(sections)
    THEN [ok |-> TRUE, rows |-> <<>>]
    ELSE LET sec == sections[idx + 1]
             t == extract_lines(doc, sec.start_line, sec.end_line)
         IN  IF ~t.ok
             THEN [ok |-> FALSE, rows |-> <<>>]
             ELSE LET rest == save_sections(document_id, doc, sections, idx + 1)
                  IN  [ok |-> rest.ok,
                       rows |-> <<section_row(document_id, idx, sec, t.value)>>
                                \o rest.rows]

\* lines 230-256: rows and printed warnings for the references of one
\* section, a reference whose extract_lines raises being skipped
RECURSIVE save_clauses(_, _, _, _, _)
save_clauses(document_id, doc, idx, sec, refs) ==
    IF Len(refs) = 0
    THEN [rows |-> <<>>, log |-> <<>>]
    ELSE LET ref == refs[1]
             t == extract_lines(doc, ref.start_line, ref.end_line)
             rest == save_clauses(document_id, doc, idx, sec, Tail(refs))
         IN  IF ~t.ok
             THEN [rows |-> rest.rows, log |-> <<"invalid_line_range">> \o rest.log]
             ELSE [rows |-> <<clause_row(document_id, idx, sec, ref, t.value)>>
                            \o rest.rows,
                   log |-> rest.log]

(***************************************************************************)
(* Inputs of the pipeline: documents of 1..MaxPipeLines pairwise different *)
(* lines (the first one blank), and the empty document; segmentation       *)
(* replies of at most two sections and clause replies of at most two       *)
(* boundaries (the first of two being (1,1) or the inverted (2,1)), over   *)
(* the line numbers 0..total_lines + 1.                                    *)
(***************************************************************************)
MaxPipeLines == 3

PipeLine(i) == Repeat(<<" ">>, i % 2) \o Repeat(<<"a">>, i \div 2)

PipeText(n) == join([i \in 1..n |-> PipeLine(i)])

PipeTexts == {<<>>} \cup {PipeText(n) : n \in 1..MaxPipeLines}

PipeLines(total_lines) == 0..(total_lines + 1)

\* the section types of a two-section reply, by position
PipeTypePairs == {<<1, 2>>, <<2, 3>>, <<3, 1>>}

SegReplies(total_lines) ==
    {[parsed |-> FALSE, sections |-> <<>>], [parsed |-> TRUE, sections |-> <<>>]}
    \cup {[parsed |-> TRUE, sections |-> <<SegSection(p, s1, e1)>>] :
            p \in 1..3, s1 \in PipeLines(total_lines), e1 \in PipeLines(total_lines)}
    \cup {[parsed |-> TRUE,
           sections |-> <<SegSection(p[1], s1, e1), SegSection(p[2], s2, e2)>>] :
            p \in PipeTypePairs,
            s1 \in PipeLines(total_lines), e1 \in PipeLines(total_lines),
            s2 \in PipeLines(total_lines), e2 \in PipeLines(total_lines)}

ClauseReplies(total_lines) ==
    {[parsed |-> FALSE, clauses |-> <<>>], [parsed |-> TRUE, clauses |-> <<>>]}
    \cup {[parsed |-> TRUE, clauses |-> <<ClauseRef(s, e)>>] :
            s \in PipeLines(total_lines), e \in PipeLines(total_lines)}
    \cup {[parsed |-> TRUE, clauses |-> <<ClauseRef(s1, 1), ClauseRef(s, e)>>] :
            s1 \in 1..2,
            s \in PipeLines(total_lines), e \in PipeLines(total_lines)}

\* Two tasks at once draw their replies from fewer cases: the failed
\* call, one section over the whole document, a header line followed by
\* one section (an invalid range on a one-line document); the failed call,
\* no clause, one clause, one clause followed by one beyond the document.
PairSegReplies(total_lines) ==
    {[parsed |-> FALSE, sections |-> <<>>],
     [parsed |-> TRUE, sections |-> <<SegSection(2, 1, total_lines)>>],
     [parsed |-> TRUE,
      sections |-> <<SegSection(1, 1, 1), SegSection(2, 2, total_lines)>>]}

PairClauseReplies(total_lines) ==
    {[parsed |-> FALSE, clauses |-> <<>>],
     [parsed |-> TRUE, clauses |-> <<>>],
     [parsed |-> TRUE, clauses |-> <<ClauseRef(1, 1)>>],
     [parsed |-> TRUE,
      clauses |-> <<ClauseRef(1, 1), ClauseRef(total_lines + 1, total_lines + 1)>>]}

Concurrent == Cardinality(DOMAIN pd) > 1

SegRepliesNow(total_lines) ==
    IF Concurrent THEN PairSegReplies(total_lines) ELSE SegReplies(total_lines)

ClauseRepliesNow(total_lines) ==
    IF Concurrent THEN PairClauseReplies(total_lines)
    ELSE ClauseReplies(total_lines)

\* outcomes of extract_line_items_from_section: it raises, or returns items
LineItemReplies == {"raise", "none", "one"}

\* upload_document, lines 97-110: the Document row is committed with status
\* PROCESSING and the task is queued with the same text
uploaded(text) ==
    [status |-> "processing", error_message |-> None,
     original_text |-> text, total_lines |-> add_line_numbers(text).total_lines]

queued(text) ==
    [pc |-> "start", text |-> text, sections |-> <<>>, idx |-> 0,
     results |-> <<>>, pending_clauses |-> <<>>, log |-> <<>>]

PD_Init ==
    /\ \E text \in PipeTexts :
         /\ db_documents = [d \in {1} |-> uploaded(text)]
         /\ pd = [d \in {1} |-> queued(text)]
    /\ db_sections = <<>>
    /\ db_line_items = <<>>
    /\ db_clauses = <<>>

PD_Idle ==
    /\ pd = <<>>
    /\ db_documents = <<>>
    /\ db_sections = <<>>
    /\ db_line_items = <<>>
    /\ db_clauses = <<>>

\* lines 131-141: the document is looked up, the text is numbered, and
\* status SEGMENTING is committed
PD_Start(d) ==
    /\ pd[d].pc = "start"
    /\ IF d \notin DOMAIN db_documents
       THEN /\ pd' = [pd EXCEPT ![d].pc = "returned"]
            /\ UNCHANGED db_documents
       ELSE /\ db_documents' = [db_documents EXCEPT ![d].status = "segmenting"]
            /\ pd' = [pd EXCEPT ![d].pc = "segment"]
    /\ UNCHANGED <<db_sections, db_line_items, db_clauses>>
    /\ UNCHANGED <<liVars, sgVars, exVars, vrVars, nmVars, rmVars, rfVars>>

\* lines 143-175 and 262-267: the segmentation call; its failure commits
\* ERROR and returns.  Otherwise the sections are repaired and saved in
\* order; a section whose extract_lines raises sends the task to the outer
\* handler, whose commit also commits the rows added before it.
PD_Segment(d) ==
    /\ pd[d].pc = "segment"
    /\ LET doc == add_line_numbers(pd[d].text)
       IN  \E reply \in SegRepliesNow(doc.total_lines) :
             LET seg_result == segment_document(reply)
                 v == validate_segmentation(seg_result.sections, doc.total_lines)
                 saved == save_sections(d, doc, v.sections, 0)
                 called == Append(pd[d].log, "segment_document")
                 warned == IF Len(v.warnings) > 0
                           THEN Append(called, "seg_warnings") ELSE called
             IN  IF ~seg_result.ok
                 THEN /\ db_documents' =
                            [db_documents EXCEPT
                               ![d].status = "error",
                               ![d].error_message = "Segmentation failed"]
                      /\ pd' = [pd EXCEPT ![d].pc = "returned", ![d].log = called]
                      /\ UNCHANGED db_sections
                 ELSE /\ db_sections' = db_sections \o saved.rows
                      /\ IF saved.ok
                         THEN /\ pd' = [pd EXCEPT ![d].pc = "line_items",
                                                  ![d].sections = v.sections,
                                                  ![d].log = warned]
                              /\ UNCHANGED db_documents
                         ELSE /\ db_documents' =
                                    [db_documents EXCEPT
                                       ![d].status = "error",
                                       ![d].error_message = "Invalid line range"]
                              /\ pd' = [pd EXCEPT ![d].pc = "returned",
                                                  ![d].sections = v.sections,
                                                  ![d].log = warned]
    /\ UNCHANGED <<db_line_items, db_clauses>>
    /\ UNCHANGED <<liVars, sgVars, exVars, vrVars, nmVars, rmVars, rfVars>>

\* lines 178-196: line item rows of the header sections from index idx on,
\* a failed extraction being printed and passed over
RECURSIVE save_line_items(_, _, _, _)
save_line_items(document_id, sections, idx, replies) ==
    IF idx >= Len(sections)
    THEN [rows |-> <<>>, log |-> <<>>]
    ELSE LET sec == sections[idx + 1]
             rest == save_line_items(document_id, sections, idx + 1, replies)
         IN  IF sec.section_type # "header" THEN rest
             ELSE IF replies[idx + 1] = "raise"
             THEN [rows |-> rest.rows,
                   log |-> <<"extract_line_items", "line_items_failed">> \o rest.log]
             ELSE [rows |-> (IF replies[idx + 1] = "one"
                             THEN <<[document_id |-> document_id,
                                     section_id |-> <<document_id, idx>>,
                                     line_number |-> 1]>>
                             ELSE <<>>) \o rest.rows,
                   log |-> <<"extract_line_items">> \o rest.log]

HeaderIndexes(sections) ==
    {k \in 1..Len(sections) : sections[k].section_type = "header"}

\* lines 177-202: line items of the header sections are committed, then
\* status EXTRACTING
PD_LineItems(d) ==
    /\ pd[d].pc = "line_items"
    /\ \E replies \in [1..Len(pd[d].sections) -> LineItemReplies] :
         /\ \A k \in 1..Len(pd[d].sections) :
              k \notin HeaderIndexes(pd[d].sections) => replies[k] = "none"
         /\ LET r == save_line_items(d, pd[d].sections, 0, replies)
            IN  /\ db_line_items' = db_line_items \o r.rows
                /\ pd' = [pd EXCEPT ![d].pc = "extract", ![d].idx = 0,
                                    ![d].log = @ \o r.log]
    /\ db_documents' = [db_documents EXCEPT ![d].status = "extracting"]
    /\ UNCHANGED <<db_sections, db_clauses>>
    /\ UNCHANGED <<liVars, sgVars, exVars, vrVars, nmVars, rmVars, rfVars>>

\* variant: new rows go before the rows already added
db_add_first(pending, rows) == rows \o pending

\* line 256: db.add of the rows of one section, after those added before
db_add(pending, rows) == pending \o rows

\* variant: the task returns after the loop without the last commit
PD_Finish_uncommitted(d) ==
    /\ pd[d].pc = "extract"
    /\ pd[d].idx >= Len(pd[d].sections)
    /\ pd' = [pd EXCEPT ![d].pc = "returned"]
    /\ UNCHANGED <<db_documents, db_sections, db_line_items, db_clauses>>
    /\ UNCHANGED <<liVars, sgVars, exVars, vrVars, nmVars, rmVars, rfVars>>

\* lines 204-256: one iteration of the loop over the sections.  Only
\* terms_and_conditions and line_item sections are extracted; a failed call
\* is printed and the loop goes on; the clause rows stay pending.
PD_ExtractSection(d) ==
    /\ pd[d].pc = "extract"
    /\ pd[d].idx < Len(pd[d].sections)
    /\ LET doc == add_line_numbers(pd[d].text)
           idx == pd[d].idx
           sec == pd[d].sections[idx + 1]
       IN  IF sec.section_type \notin {"terms_and_conditions", "line_item"}
           THEN pd' = [pd EXCEPT ![d].idx = idx + 1]
           ELSE \E reply \in ClauseRepliesNow(doc.total_lines) :
                  LET result == extract_clauses_from_section(reply)
                      saved == save_clauses(d, doc, idx, sec, result.clauses)
                  IN  IF ~result.ok
                      THEN pd' = [pd EXCEPT
                                    ![d].idx = idx + 1,
                                    ![d].log = @ \o <<"extract_clauses_from_section",
                                                      "clause_extraction_failed">>]
                      ELSE pd' = [pd EXCEPT
                                    ![d].idx = idx + 1,
                                    ![d].results =
                                        Append(@, [idx |-> idx,
                                                   clauses |-> result.clauses]),
                                    ![d].pending_clauses = db_add(@, saved.rows),
                                    ![d].log = @ \o <<"extract_clauses_from_section">>
                                                 \o saved.log]
    /\ UNCHANGED <<db_documents, db_sections, db_line_items, db_clauses>>
    /\ UNCHANGED <<liVars, sgVars, exVars, vrVars, nmVars, rmVars, rfVars>>

\* lines 258-260: status READY; the commit persists the pending clause rows
PD_Finish(d) ==
    /\ pd[d].pc = "extract"
    /\ pd[d].idx >= Len(pd[d].sections)
    /\ db_documents' = [db_documents EXCEPT ![d].status = "ready"]
    /\ db_clauses' = db_clauses \o pd[d].pending_clauses
    /\ pd' = [pd EXCEPT ![d].pc = "returned", ![d].pending_clauses = <<>>]
    /\ UNCHANGED <<db_sections, db_line_items>>
    /\ UNCHANGED <<liVars, sgVars, exVars, vrVars, nmVars, rmVars, rfVars>>

(***************************************************************************)
(* services/reference_extractor.py and routes/reference_docs.py: the       *)
(* background processing of an uploaded reference document.  A row is      *)
(* [parent_id, status, doc_identifier, title, total_lines, error_message]; *)
(* parent_id 0 is None.  The three oracle calls return message.parsed as   *)
(* it is: a reply is "raise" (the call fails), "none" (parsed is None) or  *)
(* a parsed value.  The session's pending rows are written by db.flush()   *)
(* and made durable by the next db.commit(), the handler's included.       *)
(***************************************************************************)

\* upload_reference_doc, lines 82-93 of routes/reference_docs.py
uploaded_reference(text, doc_identifier) ==
    [parent_id |-> 0, status |-> "processing", doc_identifier |-> doc_identifier,
     title |-> None, total_lines |-> add_line_numbers(text).total_lines,
     error_message |-> None]

\* ReferenceDocument(...) of lines 46-56 for one spec of a book
child_reference(spec) ==
    [parent_id |-> 1, status |-> "processing",
     doc_identifier |-> spec.doc_identifier, title |-> spec.title,
     total_lines |-> spec.end_line - spec.start_line + 1,
     error_message |-> None]

\* `not x` for an optional string
Missing(x) == x \in {None, ""}

\* _process_single_spec, lines 79-112: metadata is asked for when the
\* identifier or the title is missing; a failed call and an attribute read
\* on a None result raise; otherwise the requirements are added and the
\* status is READY.  count is the number of requirement rows added.
process_single_spec(row, meta, reqs) ==
    LET asked == Missing(row.doc_identifier) \/ Missing(row.title)
        filled == IF asked /\ meta = "full"
                  THEN [row EXCEPT
                          !.doc_identifier = IF Missing(@) THEN "m" ELSE @,
                          !.title = IF Missing(@) THEN "t" ELSE @]
                  ELSE row
    IN  IF asked /\ meta \in {"raise", "none"}
        THEN [ok |-> FALSE, row |-> row, count |-> 0]
        ELSE IF reqs \in {"raise", "none"}
        THEN [ok |-> FALSE, row |-> filled, count |-> 0]
        ELSE [ok |-> TRUE, row |-> [filled EXCEPT !.status = "ready"],
              count |-> IF reqs = "one" THEN 1 ELSE 0]

(***************************************************************************)
(* Inputs: texts of 1..MaxRefDocLines lines, uploaded with or without an   *)
(* identifier; split replies of at most two specs over the whole text, its *)
(* first line, and a range that ends beyond it.                            *)
(***************************************************************************)
MaxRefDocLines == 2

RefDocTexts == {PipeText(n) : n \in 1..MaxRefDocLines}

SpecRanges(total_lines) ==
    {<<1, 1>>, <<1, total_lines>>, <<total_lines, total_lines + 1>>}

SpecBoundary(range, doc_identifier, title) ==
    [start_line |-> range[1], end_line |-> range[2],
     doc_identifier |-> doc_identifier, title |-> title]

SpecBoundaries(total_lines) ==
    {SpecBoundary(r, i, t) :
        r \in SpecRanges(total_lines), i \in {"a", ""}, t \in {"t", None}}

\* detect_multi_spec: a failed call, a None result, or a parsed split
Split(outcome, is_multi_spec, specs) ==
    [outcome |-> outcome, is_multi_spec |-> is_multi_spec, specs |-> specs]

SplitReplies(total_lines) ==
    {Split("raise", FALSE, <<>>), Split("none", FALSE, <<>>)}
    \cup {Split("parsed", m, <<>>) : m \in BOOLEAN}
    \cup {Split("parsed", TRUE, <<b>>) : b \in SpecBoundaries(total_lines)}
    \cup {Split("parsed", m, <<b1, b2>>) :
            m \in BOOLEAN,
            b1 \in SpecBoundaries(total_lines),
            b2 \in {SpecBoundary(r, "b", "t") : r \in SpecRanges(total_lines)}}

MetadataReplies == {"raise", "none", "empty", "full"}

RequirementReplies == {"raise", "none", "zero", "one"}

RF_Init ==
    /\ rf_pc = "start"
    /\ rf_text \in RefDocTexts
    /\ \E i \in {None, "a"} : rf_docs = <<uploaded_reference(rf_text, i)>>
    /\ rf_specs = <<>>
    /\ rf_idx = 0
    /\ rf_reqs = <<>>

RF_Idle ==
    /\ rf_pc = "idle"
    /\ rf_text = <<>>
    /\ rf_docs = <<>>
    /\ rf_specs = <<>>
    /\ rf_idx = 0
    /\ rf_reqs = <<>>

RequirementRows(id, count) ==
    IF count = 0 THEN <<>> ELSE <<[reference_document_id |-> id]>>

\* process_reference_document, lines 28-41: the split call; an error of the
\* call, or the attribute read on a None result, goes to the handler
RF_Detect ==
    /\ rf_pc = "start"
    /\ \E split_result \in SplitReplies(add_line_numbers(rf_text).total_lines) :
         IF split_result.outcome \in {"raise", "none"}
         THEN rf_pc' = "except" /\ UNCHANGED rf_specs
         ELSE IF split_result.is_multi_spec /\ Len(split_result.specs) > 1
         THEN rf_pc' = "children" /\ rf_specs' = split_result.specs
         ELSE rf_pc' = "single" /\ UNCHANGED rf_specs
    /\ UNCHANGED <<rf_text, rf_docs, rf_idx, rf_reqs>>
    /\ UNCHANGED <<liVars, sgVars, exVars, pdVars, vrVars, nmVars, rmVars>>

\* lines 43-60: one spec of the book.  extract_lines may raise before the
\* child exists; otherwise the child is added with status PROCESSING,
\* flushed, and processed; an error there leaves the loop for the handler.
RF_Child ==
    /\ rf_pc = "children"
    /\ rf_idx < Len(rf_specs)
    /\ LET spec == rf_specs[rf_idx + 1]
           child_text == extract_lines(add_line_numbers(rf_text),
                                       spec.start_line, spec.end_line)
           id == Len(rf_docs) + 1
       IN  IF ~child_text.ok
           THEN /\ rf_pc' = "except"
                /\ UNCHANGED <<rf_docs, rf_idx, rf_reqs>>
           ELSE \E meta \in MetadataReplies : \E reqs \in RequirementReplies :
                  LET r == process_single_spec(child_reference(spec), meta, reqs)
                  IN  /\ rf_docs' = Append(rf_docs, r.row)
                      /\ rf_reqs' = rf_reqs \o RequirementRows(id, r.count)
                      /\ IF r.ok
                         THEN rf_pc' = "children" /\ rf_idx' = rf_idx + 1
                         ELSE rf_pc' = "except" /\ UNCHANGED rf_idx
    /\ UNCHANGED <<rf_text, rf_specs>>
    /\ UNCHANGED <<liVars, sgVars, exVars, pdVars, vrVars, nmVars, rmVars>>

\* lines 62-65: the parent of a book is a container
RF_Container ==
    /\ rf_pc = "children"
    /\ rf_idx >= Len(rf_specs)
    /\ rf_docs' = [rf_docs EXCEPT ![1].status = "ready"]
    /\ rf_pc' = "returned"
    /\ UNCHANGED <<rf_text, rf_specs, rf_idx, rf_reqs>>
    /\ UNCHANGED <<liVars, sgVars, exVars, pdVars, vrVars, nmVars, rmVars>>

\* lines 67-69: a single spec is processed directly
RF_Single ==
    /\ rf_pc = "single"
    /\ \E meta \in MetadataReplies : \E reqs \in RequirementReplies :
         LET r == process_single_spec(rf_docs[1], meta, reqs)
         IN  /\ rf_docs' = [rf_docs EXCEPT ![1] = r.row]
             /\ rf_reqs' = rf_reqs \o RequirementRows(1, r.count)
             /\ rf_pc' = IF r.ok THEN "returned" ELSE "except"
    /\ UNCHANGED <<rf_text, rf_specs, rf_idx>>
    /\ UNCHANGED <<liVars, sgVars, exVars, pdVars, vrVars, nmVars, rmVars>>

\* lines 71-75: the handler marks the uploaded document, commits whatever
\* the session holds, and raises again
RF_Except ==
    /\ rf_pc = "except"
    /\ rf_docs' = [rf_docs EXCEPT ![1].status = "error",
                                  ![1].error_message = "error"]
    /\ rf_pc' = "raised"
    /\ UNCHANGED <<rf_text, rf_specs, rf_idx, rf_reqs>>
    /\ UNCHANGED <<liVars, sgVars, exVars, pdVars, vrVars, nmVars, rmVars>>

\* _process_reference_doc_background, lines 101-121 of
\* routes/reference_docs.py: after an error the uploaded document is marked
\* once more, in a new session
RF_Background ==
    /\ rf_pc \in {"returned", "raised"}
    /\ IF rf_pc = "raised"
       THEN rf_docs' = [rf_docs EXCEPT ![1].status = "error",
                                       ![1].error_message = "error"]
       ELSE UNCHANGED rf_docs
    /\ rf_pc' = "done"
    /\ UNCHANGED <<rf_text, rf_specs, rf_idx, rf_reqs>>
    /\ UNCHANGED <<liVars, sgVars, exVars, pdVars, vrVars, nmVars, rmVars>>

InitRefDoc ==
    RF_Init /\ LI_Idle /\ SG_Idle /\ EX_Idle /\ PD_Idle /\ VR_Idle /\ NM_Idle
    /\ RM_Idle

NextRefDoc ==
    RF_Detect \/ RF_Child \/ RF_Container \/ RF_Single \/ RF_Except
    \/ RF_Background

SpecRefDoc == InitRefDoc /\ [][NextRefDoc]_vars

\* C30: once process_reference_document has returned or raised, the
\* uploaded document and every child created for a book are READY or
\* ERROR; none is left in PROCESSING.
C30_NoneLeftProcessing ==
    rf_pc \in {"returned", "raised", "done"}
    => \A id \in 1..Len(rf_docs) : rf_docs[id].status \in {"ready", "error"}

InitPipe == PD_Init /\ LI_Idle /\ SG_Idle /\ EX_Idle /\ VR_Idle /\ NM_Idle /\ RM_Idle /\ RF_Idle

NextPipe ==
    \/ \E d \in DOMAIN pd : PD_Start(d)
    \/ \E d \in DOMAIN pd : PD_Segment(d)
    \/ \E d \in DOMAIN pd : PD_LineItems(d)
    \/ \E d \in DOMAIN pd : PD_ExtractSection(d)
    \/ \E d \in DOMAIN pd : PD_Finish(d)

SpecPipe == InitPipe /\ [][NextPipe]_vars

\* Two documents uploaded one after the other, of 1..MaxPairLines lines
\* each, and their two background tasks running at once.
MaxPairLines == 2

PairTexts == {PipeText(n) : n \in 1..MaxPairLines}

PD_InitPair ==
    /\ \E texts \in [1..2 -> PairTexts] :
         /\ db_documents = [d \in 1..2 |-> uploaded(texts[d])]
         /\ pd = [d \in 1..2 |-> queued(texts[d])]
    /\ db_sections = <<>>
    /\ db_line_items = <<>>
    /\ db_clauses = <<>>

InitPair ==
    PD_InitPair /\ LI_Idle /\ SG_Idle /\ EX_Idle /\ VR_Idle /\ NM_Idle /\ RM_Idle /\ RF_Idle

SpecPair == InitPair /\ [][NextPipe]_vars

\* Runs to completion, on the empty document and the documents of up to
\* MaxLiveLines lines.  The background task is a sequential program: its
\* next step is taken.
MaxLiveLines == 1

LiveTexts == {<<>>} \cup {PipeText(n) : n \in 1..MaxLiveLines}

InitPipeLive == InitPipe /\ \A d \in DOMAIN pd : pd[d].text \in LiveTexts

SpecPipeLive == InitPipeLive /\ [][NextPipe]_vars /\ WF_vars(NextPipe)

(***************************************************************************)
(* Inputs of windowed extraction with a truthful oracle: documents of two  *)
(* windows, and true structures of at most MaxTrueClauses disjoint clauses *)
(* in ascending order whose ends lie at the edges of the document, of the  *)
(* first window and of the overlap.                                        *)
(***************************************************************************)
MaxTrueClauses == 3

StitchTotals ==
    {MAX_LINES_PER_CHUNK + 1, MAX_LINES_PER_CHUNK + chunk_overlap + 1,
     2 * MAX_LINES_PER_CHUNK - chunk_overlap}

KeyLines(total_lines) ==
    {1, MAX_LINES_PER_CHUNK - chunk_overlap, MAX_LINES_PER_CHUNK - chunk_overlap + 1,
     MAX_LINES_PER_CHUNK - 1, MAX_LINES_PER_CHUNK, MAX_LINES_PER_CHUNK + 1,
     total_lines}

RECURSIVE TrueStructures(_, _, _)
TrueStructures(total_lines, from, k) ==
    IF k = 0 THEN {<<>>}
    ELSE {<<>>} \cup
         UNION {{<<ClauseRef(r[1], r[2])>> \o rest :
                   rest \in TrueStructures(total_lines, r[2] + 1, k - 1)} :
                r \in {x \in KeyLines(total_lines) \X KeyLines(total_lines) :
                         from <= x[1] /\ x[1] <= x[2]}}

ST_Init ==
    /\ ex_pc = "document"
    /\ ex_total \in StitchTotals
    /\ ex_range = <<1, ex_total>>
    /\ \E t \in TrueStructures(ex_total, 1, MaxTrueClauses) :
         ex_truth = [known |-> TRUE, clauses |-> t]
    /\ ex_chunk_start = 0
    /\ ex_all = <<>>
    /\ ex_calls = <<>>
    /\ ex_result = <<>>

InitStitch == ST_Init /\ LI_Idle /\ SG_Idle /\ PD_Idle /\ VR_Idle /\ NM_Idle /\ RM_Idle /\ RF_Idle

NextStitch == ExtractDocument \/ ExtractChunk

SpecStitch == InitStitch /\ [][NextStitch]_vars

InitRefs == VR_Init /\ LI_Idle /\ SG_Idle /\ EX_Idle /\ PD_Idle /\ NM_Idle /\ RM_Idle /\ RF_Idle

NextRefs == ValidateReferences

SpecRefs == InitRefs /\ [][NextRefs]_vars

InitNorm == NM_Init /\ LI_Idle /\ SG_Idle /\ EX_Idle /\ PD_Idle /\ VR_Idle /\ RM_Idle /\ RF_Idle

NextNorm == NormalizeIdentifier \/ NormalizeAgain

SpecNorm == InitNorm /\ [][NextNorm]_vars

\* run_reference_matching, lines 213-233: without a customer or without
\* clauses the run returns; otherwise the detection call is made, and an
\* empty detection result ends the run
RM_Detect ==
    /\ rm_pc = "detect"
    /\ IF rm_customer = 0 \/ Len(rm_clauses) = 0
       THEN /\ rm_pc' = "returned"
            /\ UNCHANGED <<rm_reply, rm_detected, rm_raised>>
       ELSE \E reply \in DetectionReplies :
              LET r == detect_references_in_clauses(reply)
              IN  /\ rm_reply' = reply
                  /\ rm_detected' = r.detected
                  /\ rm_raised' = ~r.ok
                  /\ rm_pc' = IF r.ok /\ Len(r.detected) > 0 THEN "match"
                              ELSE "returned"
    /\ UNCHANGED <<rm_customer, rm_status, rm_library, rm_clauses, rm_links>>
    /\ UNCHANGED <<liVars, sgVars, exVars, pdVars, vrVars, nmVars, rfVars>>

\* variant: a run that built links marks the document
RM_Match_marking ==
    /\ rm_pc = "match"
    /\ rm_links' = rm_links \o match_references_to_library(
                                  rm_detected, rm_customer, rm_clauses, rm_library)
    /\ rm_status' = "matched"
    /\ rm_pc' = "returned"
    /\ UNCHANGED <<rm_customer, rm_library, rm_clauses, rm_reply, rm_detected,
                   rm_raised>>
    /\ UNCHANGED <<liVars, sgVars, exVars, pdVars, vrVars, nmVars, rfVars>>

\* lines 235-241: the links are built, added and committed
RM_Match ==
    /\ rm_pc = "match"
    /\ rm_links' = rm_links \o match_references_to_library(
                                  rm_detected, rm_customer, rm_clauses, rm_library)
    /\ rm_pc' = "returned"
    /\ UNCHANGED <<rm_customer, rm_status, rm_library, rm_clauses, rm_reply,
                   rm_detected, rm_raised>>
    /\ UNCHANGED <<liVars, sgVars, exVars, pdVars, vrVars, nmVars, rfVars>>

InitMatch ==
    RM_Init /\ LI_Idle /\ SG_Idle /\ EX_Idle /\ PD_Idle /\ VR_Idle /\ NM_Idle /\ RF_Idle

NextMatch == RM_Detect \/ RM_Match

SpecMatch == InitMatch /\ [][NextMatch]_vars

(***************************************************************************)
(* Properties of reference matching.  An optional string that is None or   *)
(* empty is an absent value: a citation with such a version carries no     *)
(* version, and a library entry with such an identifier or version has no  *)
(* normalized identifier or version to share.                              *)
(***************************************************************************)
\* indexes of the customer's library entries sharing the normalized
\* identifier of a citation
Sharing(identifier) ==
    {i \in 1..Len(rm_library) :
        /\ rm_library[i].customer_id = rm_customer
        /\ Truthy(rm_library[i].doc_identifier)
        /\ normalize_identifier(rm_library[i].doc_identifier)
             = normalize_identifier(identifier)}

CarriesVersion(version) == Truthy(version)

VersionEqual(i, version) ==
    /\ Truthy(rm_library[i].version)
    /\ normalize_version(rm_library[i].version) = normalize_version(version)

\* the entries satisfying the version condition of a matched link
Satisfying(identifier, version) ==
    {i \in Sharing(identifier) :
        ~CarriesVersion(version) \/ VersionEqual(i, version)}

LinkSet == {rm_links[k] : k \in 1..Len(rm_links)}

\* C16: the outcome of a citation is unresolved exactly when no entry of
\* the customer shares its normalized identifier, matched exactly when
\* some entry shares it and the citation carries no version or a sharing
\* entry has the same normalized version, partial exactly when some entry
\* shares it, the citation carries a version and no sharing entry has it;
\* the outcome is one of the three.
C16_Tiering ==
    \A link \in LinkSet :
      LET sharing == Sharing(link.detected_spec_identifier)
          version == link.detected_version
          equal == \E i \in sharing : VersionEqual(i, version)
      IN  /\ link.match_status \in {"matched", "partial", "unresolved"}
          /\ link.match_status = "unresolved" <=> sharing = {}
          /\ link.match_status = "matched"
               <=> sharing # {} /\ (~CarriesVersion(version) \/ equal)
          /\ link.match_status = "partial"
               <=> sharing # {} /\ CarriesVersion(version) /\ ~equal

\* a run whose links hold a match on an equal version next to a partial
\* match
C16_Witness ==
    /\ rm_pc = "returned"
    /\ \E link \in LinkSet :
         /\ link.match_status = "matched"
         /\ CarriesVersion(link.detected_version)
    /\ \E link \in LinkSet : link.match_status = "partial"

\* C17: a matched link is bound to the first entry, in library order, of
\* the sharing entries that satisfies the version condition, a partial link
\* to a sharing entry, an unresolved link to no entry, and a bound entry
\* belongs to the customer of the document.
C17_Binding ==
    \A link \in LinkSet :
      LET sharing == Sharing(link.detected_spec_identifier)
          satisfying == Satisfying(link.detected_spec_identifier,
                                   link.detected_version)
          bound == link.reference_document_id
      IN  /\ link.match_status = "matched"
               => /\ bound \in satisfying
                  /\ \A i \in satisfying : bound <= i
          /\ link.match_status = "partial" => bound \in sharing
          /\ link.match_status = "unresolved" => bound = 0
          /\ bound # 0
               => /\ bound \in 1..Len(rm_library)
                  /\ rm_library[bound].id = bound
                  /\ rm_library[bound].customer_id = rm_customer

\* a link on a citation with a version, matched and bound to the second
\* entry although the first entry of the library shares the identifier,
\* next to a partial link bound to a sharing entry
C17_Witness ==
    /\ rm_pc = "returned"
    /\ \E link \in LinkSet :
         /\ link.match_status = "matched"
         /\ CarriesVersion(link.detected_version)
         /\ link.reference_document_id = 2
         /\ 1 \in Sharing(link.detected_spec_identifier)
    /\ \E link \in LinkSet :
         /\ link.match_status = "partial"
         /\ link.reference_document_id \in Sharing(link.detected_spec_identifier)

\* C18: matching returns one link per detected citation, in citation
\* order, each with one of the three outcomes.
C18_OneLinkPerCitation ==
    rm_pc = "returned" /\ Len(rm_detected) > 0
      => /\ Len(rm_links) = Len(rm_detected)
         /\ \A k \in 1..Len(rm_links) :
              /\ rm_links[k].detected_spec_identifier
                   = rm_detected[k].spec_identifier
              /\ rm_links[k].detected_version = rm_detected[k].version
              /\ rm_links[k].match_status
                   \in {"matched", "partial", "unresolved"}

\* the run made its detection call
DetectionCalled ==
    rm_pc \in {"match", "returned"} /\ rm_customer # 0 /\ Len(rm_clauses) > 0

\* C20: a detection call whose reply has no parsed result fails with an
\* error; it does not end as a successful empty detection.
C20_NullParseFails ==
    DetectionCalled /\ ~rm_reply.parsed => rm_raised

IsPrefix(a, b) == Len(a) <= Len(b) /\ SubSeq(b, 1, Len(a)) = a

\* C23: no step of run_reference_matching changes a clause, the document's
\* status or the reference library; a step only adds link rows; a run
\* whose detection call failed or returned no parsed result, and a run on
\* a document without customer, adds none.
C23_OnlyAddsLinks ==
    /\ [][/\ rm_clauses' = rm_clauses
           /\ rm_status' = rm_status
           /\ rm_customer' = rm_customer
           /\ rm_library' = rm_library
           /\ IsPrefix(rm_links, rm_links')]_vars
    /\ [](rm_raised \/ ~rm_reply.parsed \/ rm_customer = 0 => rm_links = <<>>)

\* a run that committed two links against a library of two entries
C23_Witness ==
    /\ rm_pc = "returned"
    /\ Len(rm_links) = 2
    /\ Len(rm_library) = 2
    /\ rm_status = "ready"

InitExtract == EX_Init /\ LI_Idle /\ SG_Idle /\ PD_Idle /\ VR_Idle /\ NM_Idle /\ RM_Idle /\ RF_Idle

NextExtract == ExtractDocument \/ ExtractChunk \/ ExtractSection

SpecExtract == InitExtract /\ [][NextExtract]_vars

\* Extractions followed to their end: any reply of the oracle for documents
\* of up to MaxLiveChunks + 1 windows, and an oracle that finds no clause
\* for every length of ExTotals.
MaxLiveChunks == 1

LiveTotals ==
    {1, 2, chunk_overlap + 1}
    \cup {j * MAX_LINES_PER_CHUNK - (j - 1) * chunk_overlap + d :
            j \in 1..MaxLiveChunks, d \in {0 - 1, 0, 1}}

NoClauseTruth == [known |-> TRUE, clauses |-> <<>>]

EX_InitLive ==
    /\ ex_pc \in {"document", "section"}
    /\ \/ ex_truth = NoTruth /\ ex_total \in LiveTotals
       \/ ex_truth = NoClauseTruth /\ ex_total \in ExTotals /\ ex_pc = "document"
    /\ ex_range \in IF ex_pc = "section" THEN SectionRanges(ex_total)
                    ELSE {<<1, ex_total>>}
    /\ ex_chunk_start = 0
    /\ ex_all = <<>>
    /\ ex_calls = <<>>
    /\ ex_result = <<>>

InitExtractLive ==
    EX_InitLive /\ LI_Idle /\ SG_Idle /\ PD_Idle /\ VR_Idle /\ NM_Idle
    /\ RM_Idle /\ RF_Idle

\* the loop is a sequential program: a step that can be taken is taken
SpecExtractLive ==
    InitExtractLive /\ [][NextExtract]_vars /\ WF_vars(NextExtract)

InitSeg == SG_Init /\ LI_Idle /\ EX_Idle /\ PD_Idle /\ VR_Idle /\ NM_Idle /\ RM_Idle /\ RF_Idle

NextSeg == SegSort \/ SegFirstFix \/ SegPairStep \/ SegLastFix \/ SegCoverage

SpecSeg == InitSeg /\ [][NextSeg]_vars

InitLines == LI_Init /\ SG_Idle /\ EX_Idle /\ PD_Idle /\ VR_Idle /\ NM_Idle /\ RM_Idle /\ RF_Idle

NextLines == AddLineNumbers \/ ExtractLines \/ ExtractLinesAgain

SpecLines == InitLines /\ [][NextLines]_vars

(***************************************************************************)
(* The original text seen as a string: positions of its newlines and the   *)
(* substring spanned by a range of lines.                                  *)
(***************************************************************************)
NewlinePositions(text) == {p \in 1..Len(text) : text[p] = NL}

LineCount(text) == Cardinality(NewlinePositions(text)) + 1

\* position of the k-th newline of text
NthNewline(text, k) ==
    CHOOSE p \in NewlinePositions(text) :
        Cardinality({q \in NewlinePositions(text) : q <= p}) = k

LineFirstPos(text, i) == IF i = 1 THEN 1 ELSE NthNewline(text, i - 1) + 1

LineLastPos(text, i) ==
    IF i = LineCount(text) THEN Len(text) ELSE NthNewline(text, i) - 1

\* the literal substring of text from the first character of line s to the
\* last character of line e
TextSpan(text, s, e) == SubSeq(text, LineFirstPos(text, s), LineLastPos(text, e))

\* value of a sequence of decimal digit characters (-1 if not all digits)
RECURSIVE DigitsValue(_)
DigitsValue(ds) ==
    IF Len(ds) = 0 THEN 0
    ELSE LET last == ds[Len(ds)]
             k == {d \in 0..9 : Digits[d + 1] = last}
             rest == DigitsValue(SubSeq(ds, 1, Len(ds) - 1))
         IN  IF k = {} \/ rest < 0 THEN 0 - 1
             ELSE rest * 10 + (CHOOSE d \in k : TRUE)

\* number of decimal digits of n >= 1
RECURSIVE DigitCount(_)
DigitCount(n) == IF n < 10 THEN 1 ELSE 1 + DigitCount(n \div 10)

(***************************************************************************)
(* Segmentation repair properties.  They speak of the sorted input         *)
(* (SegSorted), of the returned list (sg_out at "done") and of the         *)
(* returned warnings.                                                      *)
(***************************************************************************)
SegDone == sg_pc = "done" /\ Len(sg_in) > 0

SegSorted == sorted_by_start(sg_in)

SegWarnings == {sg_warnings[k] : k \in 1..Len(sg_warnings)}

SegWarned(kind) == \E w \in SegWarnings : w.kind = kind

InSection(l, sec) == sec.start_line <= l /\ l <= sec.end_line

\* lines of the document that no returned section contains
Uncovered ==
    {l \in 1..sg_total : \A k \in 1..Len(sg_out) : ~InSection(l, sg_out[k])}

\* two ranges share a line
Overlapping(a, b) ==
    /\ a.start_line <= a.end_line
    /\ b.start_line <= b.end_line
    /\ a.start_line <= b.end_line
    /\ b.start_line <= a.end_line

NoOverlap ==
    \A j \in 1..Len(sg_out) : \A k \in 1..Len(sg_out) :
        j < k => ~Overlapping(sg_out[j], sg_out[k])

\* lines of the document that two returned sections contain
Conflicting ==
    {l \in 1..sg_total :
        \E j \in 1..Len(sg_out) : \E k \in 1..Len(sg_out) :
            j < k /\ InSection(l, sg_out[j]) /\ InSection(l, sg_out[k])}

\* the document lines a warning names, read as generously as its text allows
NamedLines(w) ==
    (CASE w.kind = "not_covered"   -> {w.lines[k] : k \in 1..Len(w.lines)}
       [] w.kind = "first_gap"     -> 1..(w.a - 1)
       [] w.kind = "fixed_first"   -> 1..(w.a - 1)
       [] w.kind = "gap"           -> (w.b + 1)..(w.c - 1)
       [] w.kind = "fixed_gap"     -> (w.a + 1)..w.b
       [] w.kind = "fixed_overlap" -> (w.b + 1)..w.a
       [] w.kind = "last_short"    -> (w.a + 1)..w.b
       [] w.kind = "fixed_last"    -> ((w.b + 1)..w.a) \cup ((w.a + 1)..w.b)
       [] OTHER                    -> {})
    \cap (1..sg_total)

C5_FinalizedRangesValid ==
    (SegDone /\ \A k \in 1..Len(sg_in) :
                   sg_in[k].start_line >= 1 /\ sg_in[k].end_line >= 1)
    => \A k \in 1..Len(sg_out) :
          /\ 1 <= sg_out[k].start_line
          /\ sg_out[k].start_line <= sg_out[k].end_line
          /\ sg_out[k].end_line <= sg_total

\* C6: whenever an adjacent pair (in start-line order) overlaps, the earlier
\* boundary's end is returned as next.start - 1 with a repair warning, and
\* in the returned list no line belongs to two sections.
C6_OverlapsRemoved ==
    SegDone =>
        /\ \A i \in 1..(Len(sg_out) - 1) :
              SegSorted[i].end_line >= SegSorted[i + 1].start_line
              => /\ sg_out[i].end_line = SegSorted[i + 1].start_line - 1
                 /\ \E w \in SegWarnings :
                       /\ w.kind = "fixed_overlap"
                       /\ w.a = SegSorted[i].end_line
                       /\ w.b = SegSorted[i + 1].start_line - 1
        /\ NoOverlap
        /\ Conflicting = {}

\* an overlap of more than five lines was removed
C6_Witness ==
    /\ SegDone
    /\ \E i \in 1..(Len(sg_out) - 1) :
          /\ SegSorted[i].end_line >= SegSorted[i + 1].start_line + 5
          /\ sg_out[i].end_line = SegSorted[i + 1].start_line - 1

\* C7: the iteration for an adjacent pair with
\* gap = next.start - current.end - 1: if 0 < gap <= 3 it sets current's end
\* to next.start - 1 and appends a repair warning; if gap > 3 it leaves the
\* list unchanged and appends a discrepancy warning.  Boundaries
\* [(1,10),(15,30)] with total_lines = 30 are returned unchanged with a gap
\* warning.
C7_GapRule ==
    [][ /\ (sg_pc = "pairs" /\ sg_i <= Len(sg_out) - 1) =>
            LET current == sg_out[sg_i]
                next_sec == sg_out[sg_i + 1]
                gap == next_sec.start_line - current.end_line - 1
                w == sg_warnings'[Len(sg_warnings')]
            IN  /\ (gap > 0 /\ gap <= 3) =>
                      /\ sg_out' = [sg_out EXCEPT ![sg_i].end_line =
                                                    next_sec.start_line - 1]
                      /\ Len(sg_warnings') = Len(sg_warnings) + 1
                      /\ w.kind = "fixed_gap"
                      /\ w.a = current.end_line
                      /\ w.b = next_sec.start_line - 1
                /\ gap > 3 =>
                      /\ sg_out' = sg_out
                      /\ Len(sg_warnings') = Len(sg_warnings) + 1
                      /\ w.kind = "gap"
                      /\ w.a = gap
                      /\ w.b = current.end_line
                      /\ w.c = next_sec.start_line
        /\ ( /\ sg_pc' = "done"
             /\ sg_total = 30
             /\ Len(sg_in) = 2
             /\ <<sg_in[1].start_line, sg_in[1].end_line>> = <<1, 10>>
             /\ <<sg_in[2].start_line, sg_in[2].end_line>> = <<15, 30>> ) =>
            /\ sg_out' = sg_in
            /\ \E k \in 1..Len(sg_warnings') :
                  /\ sg_warnings'[k].kind = "gap"
                  /\ sg_warnings'[k].a = 4
      ]_vars

\* the example list has been validated: a 4-line gap, left open
C7_Witness ==
    /\ SegDone
    /\ sg_total = 30
    /\ Len(sg_in) = 2
    /\ <<sg_in[1].start_line, sg_in[1].end_line>> = <<1, 10>>
    /\ <<sg_in[2].start_line, sg_in[2].end_line>> = <<15, 30>>
    /\ sg_out = sg_in
    /\ SegWarned("gap")

\* C8: document-edge rule.  If the first boundary does not start at line 1,
\* or the last does not end at total_lines: when the discrepancy is at most
\* 5 lines the endpoint is set to 1 / total_lines and a repair warning is
\* appended; otherwise the boundary is left unchanged and a warning is
\* appended (never silently).
C8_EdgeRule ==
    [][ /\ (sg_pc = "first" /\ sg_out[1].start_line # 1) =>
            /\ Len(sg_warnings') = Len(sg_warnings) + 1
            /\ IF sg_out[1].start_line - 1 <= 5
               THEN /\ sg_out' = [sg_out EXCEPT ![1].start_line = 1]
                    /\ sg_warnings'[Len(sg_warnings')].kind = "fixed_first"
               ELSE sg_out' = sg_out
        /\ (sg_pc = "last" /\ sg_out[Len(sg_out)].end_line # sg_total) =>
            /\ Len(sg_warnings') = Len(sg_warnings) + 1
            /\ IF Abs(sg_total - sg_out[Len(sg_out)].end_line) <= 5
               THEN /\ sg_out' = [sg_out EXCEPT ![Len(sg_out)].end_line = sg_total]
                    /\ sg_warnings'[Len(sg_warnings')].kind = "fixed_last"
               ELSE sg_out' = sg_out
      ]_vars

\* what C9 says of a discrepancy above its rule's threshold: the boundary
\* is returned unchanged; `loud` tells whether a last boundary that ends
\* beyond total_lines must be reported too
LargeDiscrepanciesKept(loud) ==
    LET k == Len(sg_out)
    IN  /\ SegSorted[1].start_line - 1 > 5 =>
              /\ sg_out[1].start_line = SegSorted[1].start_line
              /\ SegWarned("first_gap")
        /\ \A i \in 1..(k - 1) :
              SegSorted[i + 1].start_line - SegSorted[i].end_line - 1 > 3 =>
                  /\ sg_out[i].end_line = SegSorted[i].end_line
                  /\ \E w \in SegWarnings :
                        w.kind = "gap" /\ w.b = SegSorted[i].end_line
        /\ Abs(sg_total - SegSorted[k].end_line) > 5 =>
              /\ sg_out[k].end_line = SegSorted[k].end_line
              /\ (loud \/ sg_total > SegSorted[k].end_line) => SegWarned("last_short")

RowsOf(rows) == {rows[k] : k \in 1..Len(rows)}

\* a stored row carries the literal text of its stored line range
LiteralRow(r) ==
    LET text == db_documents[r.document_id].original_text
    IN  /\ 1 <= r.start_line
        /\ r.start_line <= r.end_line
        /\ r.end_line <= LineCount(text)
        /\ r.text = TextSpan(text, r.start_line, r.end_line)

\* C1: in every reachable state of process_document, every persisted
\* section and every persisted clause has text exactly equal to the original
\* document's lines start_line..end_line joined by newline.
C1_PersistedTextIsLiteral ==
    /\ \A r \in RowsOf(db_sections) : LiteralRow(r)
    /\ \A r \in RowsOf(db_clauses) : LiteralRow(r)
    /\ \A d \in DOMAIN pd : \A r \in RowsOf(pd[d].pending_clauses) : LiteralRow(r)

C1_Witness ==
    /\ \E d \in DOMAIN db_documents : db_documents[d].status = "ready"
    /\ \E r \in RowsOf(db_sections) : r.start_line < r.end_line
    /\ \E r \in RowsOf(db_clauses) :
         /\ r.start_line < r.end_line
         /\ \E sec \in RowsOf(db_sections) :
              r.section_id = <<sec.document_id, sec.order_index>> /\ r.text # sec.text

\* the line range lies within the document of task d
InBounds(r, d) ==
    /\ 1 <= r.start_line
    /\ r.start_line <= r.end_line
    /\ r.end_line <= db_documents[d].total_lines

Count(seq, x) == Cardinality({i \in 1..Len(seq) : seq[i] = x})

OutOfBoundsClauses(d) ==
    {<<j, k>> \in (1..Len(pd[d].results)) \X (1..2) :
        /\ k <= Len(pd[d].results[j].clauses)
        /\ ~InBounds(pd[d].results[j].clauses[k], d)}

\* C15: a section or clause boundary whose line range violates the document
\* bounds is dropped with a warning and is not fatal to its stage: once the
\* segmentation call has succeeded the run ends in READY, with every
\* in-bounds section and every in-bounds returned clause persisted and one
\* printed warning for each dropped clause.
C15_OutOfBoundsNotFatal ==
    \A d \in DOMAIN pd :
        (pd[d].pc = "returned"
         /\ db_documents[d].error_message # "Segmentation failed")
        => /\ db_documents[d].status = "ready"
           /\ \A k \in 1..Len(pd[d].sections) :
                InBounds(pd[d].sections[k], d)
                => \E row \in RowsOf(db_sections) :
                     /\ row.document_id = d
                     /\ row.order_index = k - 1
                     /\ row.start_line = pd[d].sections[k].start_line
                     /\ row.end_line = pd[d].sections[k].end_line
           /\ \A j \in 1..Len(pd[d].results) :
                \A k \in 1..Len(pd[d].results[j].clauses) :
                    LET ref == pd[d].results[j].clauses[k]
                    IN  InBounds(ref, d)
                        => \E row \in RowsOf(db_clauses) :
                             /\ row.section_id = <<d, pd[d].results[j].idx>>
                             /\ row.start_line = ref.start_line
                             /\ row.end_line = ref.end_line
           /\ Count(pd[d].log, "invalid_line_range")
                = Cardinality(OutOfBoundsClauses(d))

InLog(d, entry) == \E i \in 1..Len(pd[d].log) : pd[d].log[i] = entry

\* C21: when the segmentation call or a section's clause extraction call
\* fails, the run ends with the document in status ERROR with an error
\* message and with no output of the failed stage (no section row after a
\* failed segmentation, no clause row after a failed extraction); it does
\* not end in READY.
C21_StageFailureReported ==
    \A d \in DOMAIN pd :
        pd[d].pc = "returned"
        => /\ db_documents[d].error_message = "Segmentation failed"
                => /\ db_documents[d].status = "error"
                   /\ \A row \in RowsOf(db_sections) : row.document_id # d
           /\ InLog(d, "clause_extraction_failed")
                => /\ db_documents[d].status = "error"
                   /\ db_documents[d].error_message # None
                   /\ \A row \in RowsOf(db_clauses) : row.document_id # d

\* C28: every persisted clause lies inside the section it is attached to.
C28_ClauseInsideSection ==
    \A r \in RowsOf(db_clauses) :
        \A sec \in RowsOf(db_sections) :
            r.section_id = <<sec.document_id, sec.order_index>>
            => /\ sec.start_line <= r.start_line
               /\ r.end_line <= sec.end_line

SegTags(sec) ==
    <<sec.section_type, sec.section_title, sec.section_number,
      sec.line_item_number>>

\* the bijections from output positions to input positions
SegBijections(n) ==
    {f \in [1..n -> 1..n] : \A i \in 1..n : \A j \in 1..n : f[i] = f[j] => i = j}

C29_Returned ==
    SegDone
    => /\ Len(sg_out) = Len(sg_in)
       /\ \A i \in 1..(Len(sg_out) - 1) :
            sg_out[i].start_line <= sg_out[i + 1].start_line
       /\ \E f \in SegBijections(Len(sg_in)) :
            \A i \in 1..Len(sg_out) :
                /\ SegTags(sg_out[i]) = SegTags(sg_in[f[i]])
                /\ i > 1 => sg_out[i].start_line = sg_in[f[i]].start_line

\* C29: validate_segmentation returns, for a non-empty list, as many
\* boundaries as it was given, sorted by start line, each with the section
\* type, title, number and line item index of one input boundary, and with
\* that boundary's start_line except possibly for the first one returned;
\* no step changes the caller's list.
C29_NeverAddsRemovesRetags ==
    /\ []C29_Returned
    /\ [][sg_in' = sg_in]_vars

\* a returned list whose order differs from the given one and whose first
\* boundary was moved to line 1
C29_Witness ==
    /\ SegDone
    /\ Len(sg_in) = 3
    /\ SegTags(sg_out[1]) # SegTags(sg_in[1])
    /\ sg_out[1].start_line = 1
    /\ \A k \in 1..3 : sg_in[k].start_line > 1

StatusOrder == <<"processing", "segmenting", "extracting", "ready">>

StatusRank(status) == CHOOSE k \in 1..4 : StatusOrder[k] = status

\* a status change goes one step forward, or to ERROR from a status that is
\* not terminal
StatusForward(a, b) ==
    \/ a = b
    \/ a \notin {"ready", "error"} /\ b = "error"
    \/ /\ a \notin {"ready", "error"}
       /\ b # "error"
       /\ StatusRank(b) = StatusRank(a) + 1

FirstInLog(d, entry) ==
    CHOOSE i \in 1..Len(pd[d].log) :
        /\ pd[d].log[i] = entry
        /\ \A j \in 1..(i - 1) : pd[d].log[j] # entry

\* the clause rows of document d, added or committed, in the order of
\* their insertion
ClauseRowsOf(d) ==
    SelectSeq(db_clauses \o pd[d].pending_clauses,
              LAMBDA r : r.document_id = d)

\* every section returned by the repair is saved as it was returned
SectionsSaved(d) ==
    \A k \in 1..Len(pd[d].sections) :
        \E row \in RowsOf(db_sections) :
            /\ row.document_id = d
            /\ row.order_index = k - 1
            /\ row.start_line = pd[d].sections[k].start_line
            /\ row.end_line = pd[d].sections[k].end_line

C22_Sequential(d) ==
    /\ InLog(d, "extract_clauses_from_section")
         => /\ InLog(d, "segment_document")
            /\ FirstInLog(d, "segment_document")
                 < FirstInLog(d, "extract_clauses_from_section")
            /\ SectionsSaved(d)
            /\ db_documents[d].status \in {"extracting", "ready"}
    /\ \A i \in 1..(Len(ClauseRowsOf(d)) - 1) :
         ClauseRowsOf(d)[i].section_id[2] <= ClauseRowsOf(d)[i + 1].section_id[2]

\* C22: no clause extraction call is issued before segmentation returned
\* and its repaired boundaries were saved; the status of a document moves
\* PROCESSING, SEGMENTING, EXTRACTING, READY one step at a time, or to ERROR
\* from a status that is not terminal, and never backward; the clause rows
\* are added in ascending section order.
C22_StagesSequential ==
    /\ [](\A d \in DOMAIN pd : C22_Sequential(d))
    /\ [][\A d \in DOMAIN db_documents :
            StatusForward(db_documents[d].status, db_documents'[d].status)]_vars

\* a READY document with clauses of two sections
C22_Witness ==
    \E d \in DOMAIN pd :
        /\ db_documents[d].status = "ready"
        /\ \E r1 \in RowsOf(db_clauses) : \E r2 \in RowsOf(db_clauses) :
             r1.section_id = <<d, 0>> /\ r2.section_id = <<d, 1>>

Terminal(d) == db_documents[d].status \in {"ready", "error"}

\* C27: every run of process_document ends, and ends with the document in
\* status READY or ERROR.
C27_EndsTerminal ==
    /\ [](\A d \in DOMAIN pd : pd[d].pc = "returned" => Terminal(d))
    /\ <>[](\A d \in DOMAIN pd : pd[d].pc = "returned" /\ Terminal(d))

\* a run that ended in ERROR because a section's line range was invalid,
\* after its earlier sections were saved
C27_Witness ==
    \E d \in DOMAIN pd :
        /\ pd[d].pc = "returned"
        /\ db_documents[d].status = "error"
        /\ db_documents[d].error_message = "Invalid line range"
        /\ \E row \in RowsOf(db_sections) : row.document_id = d

\* the rows of one document in a table, in table order
OwnRows(table, d) == SelectSeq(table, LAMBDA r : r.document_id = d)

\* the clause rows a run alone commits for the answers recorded in
\* results, from the j-th answer on
RECURSIVE AloneClauses(_, _)
AloneClauses(d, j) ==
    IF j > Len(pd[d].results) THEN <<>>
    ELSE LET answer == pd[d].results[j]
         IN  save_clauses(d, add_line_numbers(pd[d].text), answer.idx,
                          pd[d].sections[answer.idx + 1], answer.clauses).rows
             \o AloneClauses(d, j + 1)

\* what a run of task d alone leaves behind for the oracle answers that
\* task d received
AloneOutcome(d) ==
    LET doc == add_line_numbers(pd[d].text)
        saved == save_sections(d, doc, pd[d].sections, 0)
        failed == db_documents[d].error_message = "Segmentation failed"
    IN  [status |-> IF failed \/ ~saved.ok THEN "error" ELSE "ready",
         sections |-> IF failed THEN <<>> ELSE saved.rows,
         clauses |-> IF failed \/ ~saved.ok THEN <<>> ELSE AloneClauses(d, 1)]

C24_Final ==
    /\ \A r \in RowsOf(db_sections) \cup RowsOf(db_clauses) \cup RowsOf(db_line_items) :
         r.document_id \in DOMAIN pd
    /\ \A d \in DOMAIN pd :
         pd[d].pc = "returned"
         => /\ db_documents[d].status = AloneOutcome(d).status
            /\ OwnRows(db_sections, d) = AloneOutcome(d).sections
            /\ OwnRows(db_clauses, d) = AloneOutcome(d).clauses
            /\ db_documents[d].original_text = pd[d].text

\* C24: a step of one document's task changes no record of another
\* document, and when a task has returned its document's status, sections
\* and clauses are those a run alone leaves for the same oracle answers.
C24_Independent ==
    /\ []C24_Final
    /\ [][\A d \in DOMAIN pd :
            pd'[d] = pd[d]
            => /\ db_documents'[d] = db_documents[d]
               /\ OwnRows(db_sections', d) = OwnRows(db_sections, d)
               /\ OwnRows(db_line_items', d) = OwnRows(db_line_items, d)
               /\ OwnRows(db_clauses', d) = OwnRows(db_clauses, d)]_vars

\* two finished runs whose rows are interleaved: the first section row is
\* of one document, the first clause row of the other
C24_Witness ==
    /\ Concurrent
    /\ \A d \in DOMAIN pd : pd[d].pc = "returned" /\ db_documents[d].status = "ready"
    /\ Len(db_sections) > 0
    /\ Len(db_clauses) > 0
    /\ db_sections[1].document_id # db_clauses[1].document_id

(***************************************************************************)
(* Clause extraction properties.                                           *)
(***************************************************************************)
ExRangeLength == ex_range[2] - ex_range[1] + 1

\* C10: extraction over a line range issues exactly one oracle call when the
\* range length is at most MAX_LINES_PER_CHUNK, and no oracle call is ever
\* given more than MAX_LINES_PER_CHUNK lines, in whole-document extraction
\* and in per-section extraction alike.
C10_CallsWithinCapacity ==
    /\ \A k \in 1..Len(ex_calls) : ex_calls[k].lines <= MAX_LINES_PER_CHUNK
    /\ (ex_pc \in {"done", "failed"} /\ ExRangeLength <= MAX_LINES_PER_CHUNK)
       => Len(ex_calls) = 1

\* the boundary lies in the overlap with the previous window, which ended
\* at line previous_window_end, and does not reach past that window
DroppedByStitchRule(c, previous_window_end) ==
    /\ c.start_line < previous_window_end
    /\ c.end_line > previous_window_end - chunk_overlap
    /\ ~(c.end_line > previous_window_end)

RECURSIVE RetainedByStitchRule(_, _)
RetainedByStitchRule(returned, previous_window_end) ==
    IF Len(returned) = 0 THEN <<>>
    ELSE LET rest == RetainedByStitchRule(Tail(returned), previous_window_end)
         IN  IF DroppedByStitchRule(returned[1], previous_window_end)
             THEN rest ELSE <<returned[1]>> \o rest

\* C11: every boundary returned by the first window is retained; for every
\* later window a returned boundary is dropped exactly when it starts before
\* the previous window's end and ends after the start of the overlap, unless
\* it ends past the previous window's end, in which case it is retained.
C11_StitchRule ==
    [][(ex_pc = "loop" /\ Len(ex_calls') = Len(ex_calls) + 1 /\ ex_pc' # "failed")
       => LET returned == ex_calls'[Len(ex_calls')].returned
          IN  ex_all' = ex_all \o
                 (IF Len(ex_calls) = 0 THEN returned
                  ELSE RetainedByStitchRule(returned, ex_chunk_start + chunk_overlap))
      ]_vars

\* lines previous_window_end - chunk_overlap + 1 .. previous_window_end:
\* the lines the two windows share
InOverlap(line) ==
    /\ line > MAX_LINES_PER_CHUNK - chunk_overlap
    /\ line <= MAX_LINES_PER_CHUNK

\* every true clause that touches the overlap lies wholly within it, so
\* every clause is seen whole by the first window or by the second
OverlapContainsBoundaryRegion ==
    \A k \in 1..Len(ex_truth.clauses) :
        LET c == ex_truth.clauses[k]
        IN  (\E line \in c.start_line..c.end_line : InOverlap(line))
            => InOverlap(c.start_line) /\ InOverlap(c.end_line)

\* C12: with a known true clause structure, two overlapping windows, an
\* oracle that returns for each window the true clauses visible in it, and
\* an overlap that contains the boundary region, the stitched result is
\* exactly the list a single unwindowed extraction returns: the true clauses
\* in start-line order, none twice, none missing.
C12_StitchReconstructs ==
    (/\ ex_truth.known
     /\ ex_pc = "done"
     /\ Len(ex_calls) = 2
     /\ OverlapContainsBoundaryRegion)
    => ex_result = ex_truth.clauses

\* the window of a call: its first and last line
WindowLast(w) == w.first + w.lines - 1

WindowsCover(calls, total_lines) ==
    \A line \in {1, total_lines} \cup
                {WindowLast(calls[k]) + 1 : k \in 1..Len(calls)} :
        line <= total_lines
        => \E k \in 1..Len(calls) :
             calls[k].first <= line /\ line <= WindowLast(calls[k])

\* C25: in the chunk loop the first window starts at line 1, every window
\* has at most MAX_LINES_PER_CHUNK lines, each later window starts
\* chunk_overlap lines before the end of the previous one (the two share
\* exactly chunk_overlap lines), and when the loop is left the last window
\* ends at total_lines and every line lies in a window.
C25_Windows ==
    [][(ex_pc = "loop" /\ Len(ex_calls') = Len(ex_calls) + 1)
       => LET n == Len(ex_calls')
              w == ex_calls'[n]
          IN  /\ 1 <= w.lines /\ w.lines <= MAX_LINES_PER_CHUNK
              /\ n = 1 => w.first = 1
              /\ n > 1 => w.first - 1 = WindowLast(ex_calls[n - 1]) - chunk_overlap
              /\ ex_pc' = "done"
                   => /\ WindowLast(w) = ex_total
                      /\ WindowsCover(ex_calls', ex_total)]_vars

\* a finished extraction of three windows
C25_Witness ==
    /\ ex_pc = "done"
    /\ Len(ex_calls) = 3
    /\ ex_calls[3].first > ex_calls[2].first
    /\ WindowLast(ex_calls[3]) = ex_total

\* C26: the chunk loop terminates: the window start strictly increases on
\* every iteration, the loop is left only by an iteration whose window
\* reached the last line of the document, and every extraction ends.
C26_LoopTerminates ==
    /\ [][(ex_pc = "loop" /\ ex_pc' = "loop")
            => ex_chunk_start' > ex_chunk_start]_vars
    /\ [][(ex_pc = "loop" /\ ex_pc' = "done")
            => /\ Len(ex_calls') = Len(ex_calls) + 1
               /\ WindowLast(ex_calls'[Len(ex_calls')]) = ex_total]_vars
    /\ <>(ex_pc \in {"done", "failed"})

\* the loop was left after more than one iteration
C26_Witness ==
    /\ ex_pc = "done"
    /\ Len(ex_calls) >= 2
    /\ ex_chunk_start > 0

(***************************************************************************)
(* Clause reference validation properties.                                 *)
(***************************************************************************)
OutOfBounds(r, total_lines) ==
    r.start_line < 1 \/ r.end_line > total_lines \/ r.start_line > r.end_line

\* the j-th smallest element of a set of indexes
NthIndex(S, j) == CHOOSE i \in S : Cardinality({k \in S : k <= i}) = j

DroppedIndexes == {i \in 1..Len(vr_refs) : OutOfBounds(vr_refs[i], vr_total)}

KeptIndexes == (1..Len(vr_refs)) \ DroppedIndexes

InvalidWarningIndexes ==
    {i \in 1..Len(vr_warnings) : vr_warnings[i].kind = "invalid"}

\* C13: validate_references drops exactly the boundaries with start_line < 1,
\* end_line > total_lines or start_line > end_line, with one warning for
\* each dropped boundary; valid_refs holds every other input boundary, in
\* input order and unchanged, and no dropped boundary.
C13_DropsExactlyInvalid ==
    vr_pc = "done" =>
        /\ Len(vr_valid) = Cardinality(KeptIndexes)
        /\ \A j \in 1..Len(vr_valid) : vr_valid[j] = vr_refs[NthIndex(KeptIndexes, j)]
        /\ \A j \in 1..Len(vr_valid) : ~OutOfBounds(vr_valid[j], vr_total)
        /\ Cardinality(InvalidWarningIndexes) = Cardinality(DroppedIndexes)
        /\ \A j \in 1..Cardinality(DroppedIndexes) :
             LET w == vr_warnings[NthIndex(InvalidWarningIndexes, j)]
             IN  /\ w.current = vr_refs[NthIndex(DroppedIndexes, j)]
                 /\ Len(w.issues) > 0

\* the inverted boundary (5,3) is dropped with a warning, another one is kept
C13_Witness ==
    /\ vr_pc = "done"
    /\ \E i \in DroppedIndexes : vr_refs[i].start_line = 5 /\ vr_refs[i].end_line = 3
    /\ Len(vr_valid) > 0
    /\ InvalidWarningIndexes # {}

WarnedPair(kind, current, next) ==
    \E i \in 1..Len(vr_warnings) :
        /\ vr_warnings[i].kind = kind
        /\ vr_warnings[i].current = current
        /\ vr_warnings[i].next = next

\* C14: among the in-bounds boundaries sorted by start line, an adjacent pair
\* gets an overlap warning exactly when current.end >= next.start and a gap
\* warning exactly when more than 10 lines lie strictly between current.end
\* and next.start; neither warning changes a boundary.
C14_OverlapAndGapWarnings ==
    vr_pc = "done" =>
        LET sorted_refs == sorted_by_start(vr_valid)
        IN  /\ \A i \in 1..(Len(sorted_refs) - 1) :
                 LET current == sorted_refs[i]
                     next == sorted_refs[i + 1]
                 IN  /\ WarnedPair("overlap", current, next)
                        <=> current.end_line >= next.start_line
                     /\ WarnedPair("gap", current, next)
                        <=> next.start_line - current.end_line - 1 > 10
            /\ \A j \in 1..Len(vr_valid) : \E i \in 1..Len(vr_refs) : vr_valid[j] = vr_refs[i]

(***************************************************************************)
(* Identifier normalization properties.                                    *)
(***************************************************************************)
\* s without its leading and trailing whitespace
Trimmed(s) ==
    LET inner == {i \in 1..Len(s) : s[i] \notin Whitespace}
    IN  IF inner = {} THEN <<>>
        ELSE SubSeq(s, CHOOSE i \in inner : \A j \in inner : i <= j,
                       CHOOSE i \in inner : \A j \in inner : j <= i)

\* the characters of s at the positions in P, in order
RECURSIVE Pick(_, _)
Pick(s, P) ==
    IF P = {} THEN <<>>
    ELSE LET m == CHOOSE i \in P : \A j \in P : i <= j
         IN  <<s[m]>> \o Pick(s, P \ {m})

ExpectedKey(s) ==
    LET t == Trimmed(s)
        u == [i \in 1..Len(t) |-> IF t[i] = "a" THEN "A" ELSE t[i]]
    IN  Pick(u, {i \in 1..Len(u) : u[i] \notin {" ", "-", "_"}})

\* C19: _normalize_identifier(s) is s stripped of leading/trailing
\* whitespace, uppercased and with every space, hyphen and underscore
\* removed; it is idempotent; identifiers that differ only in case, spaces,
\* hyphens or underscores get the same key.
C19_NormalizeIdentifier ==
    /\ nm_pc \in {"done", "again"}
       => /\ nm_out[1] = ExpectedKey(nm_in)
          /\ nm_out[1] = nm_out[2]
    /\ nm_pc = "again" => nm_again = nm_out[1]
    /\ normalize_identifier(<<"S", "P", "X", "Q", "C", "-", "1", "7">>)
         = normalize_identifier(<<"s", "p", "x", " ", "q", "c", "_", "1", "7">>)

(***************************************************************************)
(* Line indexer properties.                                                *)
(***************************************************************************)

\* C2: extract_lines fails exactly when start < 1, end > total_lines or
\* start > end; otherwise its value is the literal substring of the original
\* text spanning lines start..end (blank lines and whitespace included).  The
\* value depends only on the text and the range, and the document still
\* holds the original lines after any number of calls.
C2_ExtractLinesContract ==
    li_pc \in {"extracted", "repeated"} =>
        LET s == li_call.start
            e == li_call.end
            n == LineCount(li_text)
            bad == s < 1 \/ e > n \/ s > e
        IN  /\ li_call.res.ok = ~bad
            /\ ~bad => li_call.res.value = TextSpan(li_text, s, e)
            /\ li_doc.total_lines = n
            /\ join(li_doc.original_lines) = li_text

\* a successful multi-line extraction that contains a blank line and a space
C2_Witness ==
    /\ li_pc = "repeated"
    /\ li_call.res.ok
    /\ li_call.start < li_call.end
    /\ \E i \in li_call.start..li_call.end : li_doc.original_lines[i] = <<>>
    /\ \E p \in 1..Len(li_call.res.value) : li_call.res.value[p] = " "

\* C3: add_line_numbers yields total_lines = number of newline-separated
\* lines >= 1 (the empty text gives one empty line); the rendering has
\* total_lines lines and rendered line i is "[", the number i zero padded to
\* the width of total_lines, "]", one space, then original line i.
C3_NumberedRendering ==
    li_pc = "built" =>
        LET n == LineCount(li_text)
            w == DigitCount(n)
            r == li_doc.numbered_text
        IN  /\ n >= 1
            /\ li_doc.total_lines = n
            /\ (li_text = <<>> => li_doc.original_lines = << <<>> >>)
            /\ LineCount(r) = n
            /\ \A i \in 1..n :
                  LET rl == TextSpan(r, i, i)
                      ol == TextSpan(li_text, i, i)
                  IN  /\ Len(rl) = w + 3 + Len(ol)
                      /\ rl[1] = "["
                      /\ DigitsValue(SubSeq(rl, 2, w + 1)) = i
                      /\ rl[w + 2] = "]"
                      /\ rl[w + 3] = " "
                      /\ SubSeq(rl, w + 4, Len(rl)) = ol
                      /\ li_doc.original_lines[i] = ol

\* a document of ten or more lines (padded numbers) with a non-empty line
C3_Witness ==
    /\ li_pc = "built"
    /\ li_doc.total_lines >= 10
    /\ \E i \in 1..li_doc.total_lines : li_doc.original_lines[i] # <<>>

====
